---------------------------- MODULE Spec2Model ----------------------------
(***************************************************************************)
(* A model of the learning subsystem of Lovepython (src/learning_system.py *)
(* and its callers in src/app.py): the process-wide CacheManager with its  *)
(* mutex, the singleton construction, the LearningSystem facade that       *)
(* memoizes progress and statistics, the StatisticsAnalyzer and the        *)
(* RecommendationEngine.                                                   *)
(*                                                                         *)
(* Specifications:                                                         *)
(*   Spec      threads calling CacheManager.get/set/delete/clear/get_stats *)
(*             on the cache that app.py constructs once at import           *)
(*   FairSpec  Spec with every thread scheduled fairly                     *)
(*   SpecCtor  threads constructing CacheManager() concurrently, then      *)
(*             calling it                                                  *)
(*   SpecLearn requests to LearningSystem on top of the cache and history  *)
(*   SpecStats StatisticsAnalyzer.analyze applied to histories drawn in    *)
(*             the initial state                                           *)
(*   SpecRec   RecommendationEngine.recommend_questions                    *)
(*   SpecWrong RecommendationEngine.recommend_wrong_questions              *)
(*   SpecDb    the routes and tools that write the tables of database.db   *)
(*   SpecSeq   sequential mode: sequential_start and /sequential/<qid>    *)
(*   SpecSeqReload  sequential mode while reload_questions replaces the    *)
(*             bank                                                        *)
(*   SpecCsv   load_questions_to_db and the reimport tool on CSV files     *)
(*   SpecExec  execute_and_check_code with the child's outcome chosen      *)
(*   SpecBank  QuestionManager lookups, statistics and progress while      *)
(*             reload_questions replaces the question bank                 *)
(*   SpecExam  login, logout and the exam and timed sessions, one request  *)
(*             of a client at a time                                       *)
(*   SpecAuth  the routes that write the tables, behind login_required     *)
(*   SpecRace  submit requests of one session served by concurrent threads *)
(***************************************************************************)
EXTENDS Integers, Sequences, FiniteSets, TLC

(***************************************************************************)
(* Bounds of the model.  MaxSize and TTL stand for _max_size = 1000 and    *)
(* _ttl = 3600 s of CacheManager.__init__ (learning_system.py:915-916),    *)
(* scaled down so that a full cache and an expired entry are reachable;    *)
(* the clock counts in units of TTL / 2.                                   *)
(***************************************************************************)
MaxSize == 2
TTL == 2
MaxTime == 3
NumThreads == 2

Threads == 1..NumThreads
\* one key more than the cache can hold
RawKeys == 1..(MaxSize + 1)
Vals == {1, 2}
NoThread == 0
NoKey == 0

\* Optional[Any]: None is the empty tuple, a value v is <<v>>.
None == <<>>
Some(v) == <<v>>

\* questions.csv is absent
NoFile == [exists |-> FALSE, decodable |-> FALSE, rows |-> <<>>]

VARIABLES
    cache,        \* CacheManager._cache: key -> value
    cacheTs,      \* CacheManager._cache_timestamps: key -> time.time() of the set
    lockOwner,    \* the thread holding CacheManager's instance mutex, or NoThread
    now,          \* time.time()
    pc,           \* per thread: where it is in its current call
    op,           \* per thread: the method it is executing
    key,          \* per thread: the key argument
    val,          \* per thread: the value argument of set
    ret,          \* per thread: the value the call is returning
    evicting,     \* per thread: oldest_key of _evict_oldest
    lastSet,      \* history variable: key -> time of the last store, -1 if none
    instance,     \* CacheManager._instance is not None
    initialized,  \* _instance._initialized: "unset", "false" or "true"
    classLock,    \* the thread holding the class mutex CacheManager._lock
    questions,    \* table questions, in row order
    history,      \* table history: user -> rows [qid, correct], oldest first
    resp,         \* the response the last step returned to its caller, or None
    snap,         \* history variable: key -> the rows a cached value was computed from
    seen,         \* history variable: per thread, the rows its analysis has read
    invalidated,  \* history variable: key -> "clear", "refresh" or "no"
    favorites,    \* table favorites, in row order: rows [user, qid, tag]
    seqQid,       \* users.current_seq_qid: user -> question id, or NoKey for NULL
    sessions,     \* table exam_sessions, in row order
    csvFile,      \* the file questions.csv
    qmCache,      \* QuestionManager._cache: question id -> Question
    loggedIn,     \* the users whose Flask session holds user_id
    examId        \* session['current_exam_id'] of each user's Flask session

cacheVars == <<cache, cacheTs, lockOwner, now>>
callVars == <<pc, op, key, val, ret, evicting>>
ctorVars == <<instance, initialized, classLock>>
learnVars == <<questions, history, resp, snap, seen, invalidated>>
\* the tables the learning subsystem does not read
dbVars == <<favorites, seqQid, sessions, csvFile, qmCache, loggedIn, examId>>
\* what the CacheManager's methods leave alone
appVars == <<ctorVars, learnVars>>
vars == <<cache, cacheTs, lockOwner, now, pc, op, key, val, ret, evicting,
          lastSet, ctorVars, learnVars, dbVars>>

\* dict helpers
Without(f, k) == [x \in (DOMAIN f) \ {k} |-> f[x]]
With(f, k, v) == [x \in (DOMAIN f) \cup {k} |-> IF x = k THEN v ELSE f[x]]
Empty == [x \in {} |-> 0]

----------------------------------------------------------------------------
(***************************************************************************)
(* CacheManager (learning_system.py:893-990)                               *)
(***************************************************************************)

\* get, line 934: the entry is still valid
Fresh_AtTTL(ts, t) == t - ts <= TTL
Fresh(ts, t) == t - ts < TTL

\* set, line 954: the cache is full
CacheFull_Off(c) == Cardinality(DOMAIN c) > MaxSize
CacheFull(c) == Cardinality(DOMAIN c) >= MaxSize

\* _evict_oldest, lines 979-980: min() over the timestamps.  Equal timestamps
\* are resolved by the dict's iteration order, which is left open here.
OldestKeys(ts) == {k \in DOMAIN ts : \A j \in DOMAIN ts : ts[k] <= ts[j]}

\* get, lines 931-942: the value returned
GetValue(c, ts, k, t) ==
    IF k \in DOMAIN c
    THEN IF k \in DOMAIN ts
         THEN IF Fresh(ts[k], t) THEN Some(c[k]) ELSE None
         ELSE Some(c[k])
    ELSE None

\* get, lines 936-939: an expired entry is deleted from both dicts
GetExpires(c, ts, k, t) == k \in DOMAIN c /\ k \in DOMAIN ts /\ ~Fresh(ts[k], t)

\* `with self._lock:` is entered, by a thread that calls a method (a caller
\* that finds the mutex taken waits in "idle") or by the delete that
\* _evict_oldest calls.  threading.Lock is not reentrant: the thread waits
\* while anyone, itself included, holds the mutex.
Enter(t) ==
    /\ pc[t] \in {"idle", "evict_lock"}
    /\ lockOwner = NoThread
    /\ lockOwner' = t
    /\ IF pc[t] = "idle"
       THEN /\ \E o \in {"get", "set", "delete", "clear", "get_stats"} :
               \E k \in RawKeys : \E v \in Vals :
                 /\ o \in {"clear", "get_stats"} => k = 1
                 /\ o # "set" => v = 1
                 /\ op' = [op EXCEPT ![t] = o]
                 /\ key' = [key EXCEPT ![t] =
                               IF o \in {"clear", "get_stats"} THEN NoKey ELSE k]
                 /\ val' = [val EXCEPT ![t] = IF o = "set" THEN v ELSE 0]
            /\ pc' = [pc EXCEPT ![t] = "in"]
       ELSE /\ pc' = [pc EXCEPT ![t] = "evict_in"]
            /\ UNCHANGED <<op, key, val>>
    /\ UNCHANGED <<cache, cacheTs, now, ret, evicting, lastSet, appVars>>
    /\ UNCHANGED dbVars

\* get, lines 930-942
GetBody(t) ==
    /\ pc[t] = "in" /\ op[t] = "get"
    /\ ret' = [ret EXCEPT ![t] = GetValue(cache, cacheTs, key[t], now)]
    /\ IF GetExpires(cache, cacheTs, key[t], now)
       THEN /\ cache' = Without(cache, key[t])
            /\ cacheTs' = Without(cacheTs, key[t])
       ELSE UNCHANGED <<cache, cacheTs>>
    /\ pc' = [pc EXCEPT ![t] = "unlock"]
    /\ UNCHANGED <<lockOwner, now, op, key, val, evicting, lastSet, appVars>>
    /\ UNCHANGED dbVars

\* set, lines 952-958, with _evict_oldest, lines 974-981.  A full cache with
\* timestamps makes _evict_oldest call self.delete(oldest_key), which enters
\* `with self._lock` again (pc "evict_lock"); "resume" is set after that call.
SetBody(t) ==
    /\ pc[t] \in {"in", "resume"} /\ op[t] = "set"
    /\ LET evicts == pc[t] = "in" /\ CacheFull(cache) /\ DOMAIN cacheTs # {}
       IN \/ /\ evicts
             /\ \E k \in OldestKeys(cacheTs) : evicting' = [evicting EXCEPT ![t] = k]
             /\ pc' = [pc EXCEPT ![t] = "evict_lock"]
             /\ UNCHANGED <<cache, cacheTs, lastSet>>
          \/ /\ ~evicts
             /\ cache' = With(cache, key[t], val[t])
             /\ cacheTs' = With(cacheTs, key[t], now)
             /\ lastSet' = [lastSet EXCEPT ![key[t]] = now]
             /\ pc' = [pc EXCEPT ![t] = "unlock"]
             /\ UNCHANGED evicting
    /\ UNCHANGED <<lockOwner, now, op, key, val, ret, appVars>>
    /\ UNCHANGED dbVars

\* delete, lines 962-966: called by the client, or by _evict_oldest (line 981)
DeleteBody(t) ==
    /\ \/ pc[t] = "in" /\ op[t] = "delete"
       \/ pc[t] = "evict_in"
    /\ LET k == IF pc[t] = "in" THEN key[t] ELSE evicting[t]
       IN /\ cache' = Without(cache, k)
          /\ cacheTs' = Without(cacheTs, k)
    /\ pc' = [pc EXCEPT ![t] = IF pc[t] = "in" THEN "unlock" ELSE "evict_unlock"]
    /\ UNCHANGED <<lockOwner, now, op, key, val, ret, evicting, lastSet, appVars>>
    /\ UNCHANGED dbVars

\* clear, lines 970-972
ClearBody(t) ==
    /\ pc[t] = "in" /\ op[t] = "clear"
    /\ cache' = Empty
    /\ cacheTs' = Empty
    /\ pc' = [pc EXCEPT ![t] = "unlock"]
    /\ UNCHANGED <<lockOwner, now, op, key, val, ret, evicting, lastSet, appVars>>
    /\ UNCHANGED dbVars

\* get_stats, lines 985-990: 'size'
StatsBody(t) ==
    /\ pc[t] = "in" /\ op[t] = "get_stats"
    /\ ret' = [ret EXCEPT ![t] = Some(Cardinality(DOMAIN cache))]
    /\ pc' = [pc EXCEPT ![t] = "unlock"]
    /\ UNCHANGED <<cacheVars, op, key, val, evicting, lastSet, appVars>>
    /\ UNCHANGED dbVars

\* The `with` block is left: the mutex is released and the call returns (or,
\* after the delete of _evict_oldest, set goes on).
Release(t) ==
    /\ pc[t] \in {"unlock", "evict_unlock"}
    /\ lockOwner' = IF lockOwner = t THEN NoThread ELSE lockOwner
    /\ IF pc[t] = "unlock"
       THEN /\ pc' = [pc EXCEPT ![t] = "idle"]
            /\ op' = [op EXCEPT ![t] = "get"]
            /\ key' = [key EXCEPT ![t] = NoKey]
            /\ val' = [val EXCEPT ![t] = 0]
            /\ ret' = [ret EXCEPT ![t] = None]
            /\ evicting' = [evicting EXCEPT ![t] = NoKey]
       ELSE /\ pc' = [pc EXCEPT ![t] = "resume"]
            /\ UNCHANGED <<op, key, val, ret, evicting>>
    /\ UNCHANGED <<cache, cacheTs, now, lastSet, appVars>>
    /\ UNCHANGED dbVars

\* The wall clock advances.
Tick ==
    /\ now < MaxTime
    /\ now' = now + 1
    /\ UNCHANGED <<cache, cacheTs, lockOwner, callVars, lastSet, appVars>>
    /\ UNCHANGED dbVars

ThreadStep(t) ==
    \/ Enter(t)
    \/ GetBody(t)
    \/ SetBody(t)
    \/ DeleteBody(t)
    \/ ClearBody(t)
    \/ StatsBody(t)
    \/ Release(t)

\* The state after `learning_system = LearningSystem()` (app.py:56): the one
\* CacheManager, constructed and empty.
Init ==
    /\ cache = Empty
    /\ cacheTs = Empty
    /\ lockOwner = NoThread
    /\ now = 0
    /\ pc = [t \in Threads |-> "idle"]
    /\ op = [t \in Threads |-> "get"]
    /\ key = [t \in Threads |-> NoKey]
    /\ val = [t \in Threads |-> 0]
    /\ ret = [t \in Threads |-> None]
    /\ evicting = [t \in Threads |-> NoKey]
    /\ lastSet = [k \in RawKeys |-> -1]
    /\ instance = TRUE
    /\ initialized = "true"
    /\ classLock = NoThread
    /\ questions = <<>>
    /\ history = <<>>
    /\ resp = None
    /\ snap = Empty
    /\ seen = [t \in Threads |-> <<>>]
    /\ invalidated = Empty
    /\ favorites = <<>>
    /\ seqQid = <<>>
    /\ sessions = <<>>
    /\ csvFile = NoFile
    /\ qmCache = Empty
    /\ loggedIn = {}
    /\ examId = Empty

Next ==
    \/ \E t \in Threads : ThreadStep(t)
    \/ Tick

Spec == Init /\ [][Next]_vars

\* A thread that is inside a call is scheduled again and again.
InCallStep(t) == pc[t] # "idle" /\ ThreadStep(t)

FairSpec == Spec /\ \A t \in Threads : WF_vars(InCallStep(t))

----------------------------------------------------------------------------
(***************************************************************************)
(* CacheManager() (learning_system.py:896-918): __new__ with its double    *)
(* check under the class mutex, then __init__, which tests _initialized    *)
(* without any mutex.  One step per statement.                             *)
(***************************************************************************)
CtorPcs == {"new", "new_lock", "new_in", "new_flag", "new_unlock",
            "init", "init_cache", "init_ts", "init_lock", "init_flag"}

\* line 901: if cls._instance is None
NewCheck(t) ==
    /\ pc[t] = "new"
    /\ pc' = [pc EXCEPT ![t] = IF instance THEN "init" ELSE "new_lock"]
    /\ UNCHANGED <<cacheVars, op, key, val, ret, evicting, lastSet, ctorVars, learnVars>>
    /\ UNCHANGED dbVars

\* line 902: with cls._lock
NewLock(t) ==
    /\ pc[t] = "new_lock"
    /\ classLock = NoThread
    /\ classLock' = t
    /\ pc' = [pc EXCEPT ![t] = "new_in"]
    /\ UNCHANGED <<cacheVars, op, key, val, ret, evicting, lastSet, instance, initialized, learnVars>>
    /\ UNCHANGED dbVars

\* lines 903-904: the second check, and the instance is created
NewCreate(t) ==
    /\ pc[t] = "new_in"
    /\ IF instance
       THEN /\ pc' = [pc EXCEPT ![t] = "new_unlock"]
            /\ UNCHANGED instance
       ELSE /\ instance' = TRUE
            /\ pc' = [pc EXCEPT ![t] = "new_flag"]
    /\ UNCHANGED <<cacheVars, op, key, val, ret, evicting, lastSet, initialized, classLock, learnVars>>
    /\ UNCHANGED dbVars

\* line 905: cls._instance._initialized = False
NewFlag(t) ==
    /\ pc[t] = "new_flag"
    /\ initialized' = "false"
    /\ pc' = [pc EXCEPT ![t] = "new_unlock"]
    /\ UNCHANGED <<cacheVars, op, key, val, ret, evicting, lastSet, instance, classLock, learnVars>>
    /\ UNCHANGED dbVars

\* the class mutex is released; line 906 returns the instance to __init__
NewUnlock(t) ==
    /\ pc[t] = "new_unlock"
    /\ classLock' = NoThread
    /\ pc' = [pc EXCEPT ![t] = "init"]
    /\ UNCHANGED <<cacheVars, op, key, val, ret, evicting, lastSet, instance, initialized, learnVars>>
    /\ UNCHANGED dbVars

\* lines 910-911: if self._initialized: return.  An instance whose attribute
\* is not set yet (line 904 done, line 905 not) raises AttributeError.
InitCheck(t) ==
    /\ pc[t] = "init"
    /\ pc' = [pc EXCEPT ![t] = CASE initialized = "unset" -> "error"
                                 [] initialized = "true" -> "idle"
                                 [] OTHER -> "init_cache"]
    /\ UNCHANGED <<cacheVars, op, key, val, ret, evicting, lastSet, ctorVars, learnVars>>
    /\ UNCHANGED dbVars

\* line 913: self._cache = {}
InitCache(t) ==
    /\ pc[t] = "init_cache"
    /\ cache' = Empty
    /\ pc' = [pc EXCEPT ![t] = "init_ts"]
    /\ UNCHANGED <<cacheTs, lockOwner, now, op, key, val, ret, evicting, lastSet, ctorVars, learnVars>>
    /\ UNCHANGED dbVars

\* line 914: self._cache_timestamps = {}
InitTs(t) ==
    /\ pc[t] = "init_ts"
    /\ cacheTs' = Empty
    /\ pc' = [pc EXCEPT ![t] = "init_lock"]
    /\ UNCHANGED <<cache, lockOwner, now, op, key, val, ret, evicting, lastSet, ctorVars, learnVars>>
    /\ UNCHANGED dbVars

\* lines 915-917: self._lock = threading.Lock(), a new mutex that nobody holds
InitLock(t) ==
    /\ pc[t] = "init_lock"
    /\ lockOwner' = NoThread
    /\ pc' = [pc EXCEPT ![t] = "init_flag"]
    /\ UNCHANGED <<cache, cacheTs, now, op, key, val, ret, evicting, lastSet, ctorVars, learnVars>>
    /\ UNCHANGED dbVars

\* line 918: self._initialized = True
InitFlag(t) ==
    /\ pc[t] = "init_flag"
    /\ initialized' = "true"
    /\ pc' = [pc EXCEPT ![t] = "idle"]
    /\ UNCHANGED <<cacheVars, op, key, val, ret, evicting, lastSet, instance, classLock, learnVars>>
    /\ UNCHANGED dbVars

CtorStep(t) ==
    \/ NewCheck(t)
    \/ NewLock(t)
    \/ NewCreate(t)
    \/ NewFlag(t)
    \/ NewUnlock(t)
    \/ InitCheck(t)
    \/ InitCache(t)
    \/ InitTs(t)
    \/ InitLock(t)
    \/ InitFlag(t)

\* No CacheManager exists yet; every thread is about to construct one.
InitCtor ==
    /\ cache = Empty
    /\ cacheTs = Empty
    /\ lockOwner = NoThread
    /\ now = 0
    /\ pc = [t \in Threads |-> "new"]
    /\ op = [t \in Threads |-> "get"]
    /\ key = [t \in Threads |-> NoKey]
    /\ val = [t \in Threads |-> 0]
    /\ ret = [t \in Threads |-> None]
    /\ evicting = [t \in Threads |-> NoKey]
    /\ lastSet = [k \in RawKeys |-> -1]
    /\ instance = FALSE
    /\ initialized = "unset"
    /\ classLock = NoThread
    /\ questions = <<>>
    /\ history = <<>>
    /\ resp = None
    /\ snap = Empty
    /\ seen = [t \in Threads |-> <<>>]
    /\ invalidated = Empty
    /\ favorites = <<>>
    /\ seqQid = <<>>
    /\ sessions = <<>>
    /\ csvFile = NoFile
    /\ qmCache = Empty
    /\ loggedIn = {}
    /\ examId = Empty

NextCtor ==
    \/ \E t \in Threads : CtorStep(t)
    \/ \E t \in Threads : ThreadStep(t)

SpecCtor == InitCtor /\ [][NextCtor]_vars

----------------------------------------------------------------------------
(***************************************************************************)
(* Database access and the analyzers (learning_system.py:207-670).         *)
(* A question is [id, difficulty, qtype, category], "" being an empty      *)
(* label; a history row is [qid, correct].  A percentage correct / total   *)
(* * 100 is kept as the exact fraction [num, den] in lowest terms: for the *)
(* totals of this model the float the code computes is below a threshold   *)
(* exactly when the fraction is, and two floats are equal exactly when the *)
(* fractions are.                                                          *)
(***************************************************************************)
Min(a, b) == IF a < b THEN a ELSE b
Max(a, b) == IF a > b THEN a ELSE b

RECURSIVE GCD(_, _)
GCD(a, b) == IF b = 0 THEN a ELSE GCD(b, a % b)

Percent(c, n) ==
    LET g == GCD(c * 100, n)
    IN [num |-> (c * 100) \div g, den |-> n \div g]
Zero == [num |-> 0, den |-> 1]
Below(a, threshold) == a.num < threshold * a.den
Less(a, b) == a.num * b.den < b.num * a.den

RECURSIVE Reverse(_)
Reverse(s) == IF s = <<>> THEN <<>> ELSE Append(Reverse(Tail(s)), Head(s))

\* list[:n]
Prefix(s, n) ==
    IF n >= 0 THEN SubSeq(s, 1, Min(n, Len(s)))
    ELSE SubSeq(s, 1, Max(0, Len(s) + n))

\* get_user_answers, lines 270-288: the rows, newest first
GetUserAnswers(rows) == Reverse(rows)

\* get_question, lines 309-332, over get_question_by_id, lines 232-249
GetQuestion(qs, qid) ==
    LET hits == SelectSeq(qs, LAMBDA q : q.id = qid)
    IN IF hits = <<>> THEN None ELSE Some(hits[1])

\* a variant that counts every row as another answered question
ProgressAnalyze_PerRow(ua, qs) ==
    LET total == Len(qs)
        correct == Cardinality({i \in 1..Len(ua) : ua[i].correct})
    IN [total |-> total,
        answered |-> Len(ua),
        remaining |-> total - Len(ua),
        correct |-> correct,
        wrong |-> Len(ua) - correct,
        accuracy |-> IF ua # <<>> THEN Percent(correct, Len(ua)) ELSE Zero,
        completion_rate |-> IF total = 0 THEN Zero ELSE Percent(Len(ua), total)]

\* LearningProgressTracker.analyze, lines 442-497, and get_completion_rate,
\* lines 122-126 (current_seq_qid and last_active_time are left out)
ProgressAnalyze(ua, qs) ==
    LET total == Len(qs)
        answered == Cardinality({ua[i].qid : i \in 1..Len(ua)})
        correct == Cardinality({i \in 1..Len(ua) : ua[i].correct})
    IN [total |-> total,
        answered |-> answered,
        remaining |-> total - answered,
        correct |-> correct,
        wrong |-> Len(ua) - correct,
        accuracy |-> IF ua # <<>> THEN Percent(correct, Len(ua)) ELSE Zero,
        completion_rate |-> IF total = 0 THEN Zero ELSE Percent(answered, total)]

\* lines 625-638: one row is counted in the bucket of a label; a dict is the
\* sequence of its entries [key, total, correct] in insertion order
Bump(d, label, ok) ==
    LET inc == IF ok THEN 1 ELSE 0
    IN IF label = "" THEN d
       ELSE IF \E i \in 1..Len(d) : d[i].key = label
       THEN [i \in 1..Len(d) |->
                IF d[i].key = label
                THEN [key |-> label, total |-> d[i].total + 1,
                      correct |-> d[i].correct + inc]
                ELSE d[i]]
       ELSE Append(d, [key |-> label, total |-> 1, correct |-> inc])

\* lines 622-638: the loop over the answers, for one of the three labels
RECURSIVE Tally(_, _, _, _)
Tally(ua, qs, label, d) ==
    IF ua = <<>> THEN d
    ELSE LET q == GetQuestion(qs, Head(ua).qid)
         IN Tally(Tail(ua), qs, label,
                  IF q = None THEN d ELSE Bump(d, q[1][label], Head(ua).correct))

\* calc_accuracy, lines 641-650
CalcAccuracy(d) ==
    [i \in 1..Len(d) |->
        [key |-> d[i].key, total |-> d[i].total, correct |-> d[i].correct,
         accuracy |-> IF d[i].total > 0 THEN Percent(d[i].correct, d[i].total)
                      ELSE Zero]]

\* line 660: a category is weak
WeakAccuracy == 60
WeakAttempts == 3
IsWeak_AtThreshold(e) == ~Less([num |-> WeakAccuracy, den |-> 1], e.accuracy) /\ e.total >= WeakAttempts
IsWeak(e) == Below(e.accuracy, WeakAccuracy) /\ e.total >= WeakAttempts

\* line 662: weak_areas.sort(key=accuracy), a stable ascending sort
RECURSIVE InsertByAccuracy(_, _)
InsertByAccuracy(sorted, x) ==
    IF sorted = <<>> THEN <<x>>
    ELSE IF Less(x.accuracy, Head(sorted).accuracy) THEN <<x>> \o sorted
    ELSE <<Head(sorted)>> \o InsertByAccuracy(Tail(sorted), x)

RECURSIVE SortByAccuracy(_)
SortByAccuracy(s) ==
    IF s = <<>> THEN <<>>
    ELSE InsertByAccuracy(SortByAccuracy(SubSeq(s, 1, Len(s) - 1)), s[Len(s)])

\* lines 657-661 and 669: the weak areas returned
WeakTop == 5
WeakAreas(categoryAccuracy) ==
    LET weak == SelectSeq(categoryAccuracy, IsWeak)
        areas == [i \in 1..Len(weak) |->
                     [category |-> weak[i].key, accuracy |-> weak[i].accuracy]]
    IN Prefix(SortByAccuracy(areas), WeakTop)

\* a variant without the early return for an empty history: 0 / 0
StatisticsAnalyze_NoEarlyReturn(ua, qs) ==
    LET correct == Cardinality({i \in 1..Len(ua) : ua[i].correct})
        categoryAccuracy == CalcAccuracy(Tally(ua, qs, "category", <<>>))
    IN [overall_accuracy |-> [num |-> correct * 100, den |-> Len(ua)],
        difficulty_stats |-> CalcAccuracy(Tally(ua, qs, "difficulty", <<>>)),
        category_stats |-> categoryAccuracy,
        type_stats |-> CalcAccuracy(Tally(ua, qs, "qtype", <<>>)),
        weak_areas |-> WeakAreas(categoryAccuracy)]

\* StatisticsAnalyzer.analyze, lines 591-670
StatisticsAnalyze(ua, qs) ==
    IF ua = <<>>
    THEN [overall_accuracy |-> Zero, difficulty_stats |-> <<>>,
          category_stats |-> <<>>, type_stats |-> <<>>, weak_areas |-> <<>>]
    ELSE LET correct == Cardinality({i \in 1..Len(ua) : ua[i].correct})
             categoryAccuracy == CalcAccuracy(Tally(ua, qs, "category", <<>>))
         IN [overall_accuracy |-> Percent(correct, Len(ua)),
             difficulty_stats |-> CalcAccuracy(Tally(ua, qs, "difficulty", <<>>)),
             category_stats |-> categoryAccuracy,
             type_stats |-> CalcAccuracy(Tally(ua, qs, "qtype", <<>>)),
             weak_areas |-> WeakAreas(categoryAccuracy)]

----------------------------------------------------------------------------
(***************************************************************************)
(* RecommendationEngine (learning_system.py:713-838)                       *)
(***************************************************************************)
HasKey(d, k) == \E i \in 1..Len(d) : d[i].key = k
Entry(d, k) == d[CHOOSE i \in 1..Len(d) : d[i].key = k]

\* line 807: random.uniform(-5, 5), at the points the model draws
JitterMax == 5
Jitter == {-JitterMax, 0, JitterMax}

BaseScore == 50
WeakBonus == 30
DifficultyBonus == 20
DifficultyAccuracy == 60
TypeBonus == 15
TypeAccuracy == 70
MaxScore == 100

\* line 789 (and 817): the question's category is among the weak areas
InWeakAreas(q, stats) ==
    \E i \in 1..Len(stats.weak_areas) : stats.weak_areas[i].category = q.category

\* lines 794-797 (and 821-823)
DifficultyIsWeak(q, stats) ==
    /\ HasKey(stats.difficulty_stats, q.difficulty)
    /\ Below(Entry(stats.difficulty_stats, q.difficulty).accuracy, DifficultyAccuracy)

\* lines 801-804
TypeIsWeak(q, stats) ==
    /\ HasKey(stats.type_stats, q.qtype)
    /\ Below(Entry(stats.type_stats, q.qtype).accuracy, TypeAccuracy)

\* line 809: min(100.0, max(0.0, score))
Clamp_NoCeiling(x) == Max(0, x)
Clamp(x) == Min(MaxScore, Max(0, x))

\* _calculate_recommendation_score, lines 771-809
CalculateRecommendationScore(q, stats, jitter) ==
    Clamp(BaseScore
          + (IF InWeakAreas(q, stats) THEN WeakBonus ELSE 0)
          + (IF DifficultyIsWeak(q, stats) THEN DifficultyBonus ELSE 0)
          + (IF TypeIsWeak(q, stats) THEN TypeBonus ELSE 0)
          + jitter)

\* _generate_recommendation_reason, lines 811-829: which reasons are given
GenerateRecommendationReason(q, stats) ==
    <<InWeakAreas(q, stats), DifficultyIsWeak(q, stats)>>

\* _determine_priority, lines 831-838
HighScore == 70
MediumScore == 50
DeterminePriority_Strict(score) ==
    IF score > HighScore THEN 1 ELSE IF score >= MediumScore THEN 2 ELSE 3
DeterminePriority(score) ==
    IF score >= HighScore THEN 1 ELSE IF score >= MediumScore THEN 2 ELSE 3

\* Recommendation.__lt__, lines 137-141
RecLess(a, b) ==
    IF a.priority # b.priority THEN a.priority < b.priority ELSE a.score > b.score

\* line 767: recommendations.sort(), a stable sort by __lt__
RECURSIVE InsertRec(_, _)
InsertRec(sorted, x) ==
    IF sorted = <<>> THEN <<x>>
    ELSE IF RecLess(x, Head(sorted)) THEN <<x>> \o sorted
    ELSE <<Head(sorted)>> \o InsertRec(Tail(sorted), x)

RECURSIVE SortRecs(_)
SortRecs(s) ==
    IF s = <<>> THEN <<>>
    ELSE InsertRec(SortRecs(SubSeq(s, 1, Len(s) - 1)), s[Len(s)])

\* a variant that leaves out only the questions answered correctly
ScoreCandidates_KeepsWrong(ua, qs, jit) ==
    LET answered == {ua[i].qid : i \in {n \in 1..Len(ua) : ua[n].correct}}
        unanswered == SelectSeq(qs, LAMBDA q : q.id \notin answered)
        stats == StatisticsAnalyze(ua, qs)
    IN [i \in 1..Len(unanswered) |->
           LET q == unanswered[i]
               score == CalculateRecommendationScore(
                            q, stats, IF q.id \in DOMAIN jit THEN jit[q.id] ELSE 0)
           IN [question_id |-> q.id,
               score |-> score,
               reason |-> GenerateRecommendationReason(q, stats),
               priority |-> DeterminePriority(score)]]

\* recommend_questions, lines 740-764: the candidates, one for each
\* unanswered question in the order of the questions table; jit[id] is the
\* jitter drawn for a question
ScoreCandidates(ua, qs, jit) ==
    LET answered == {ua[i].qid : i \in 1..Len(ua)}
        unanswered == SelectSeq(qs, LAMBDA q : q.id \notin answered)
        stats == StatisticsAnalyze(ua, qs)
    IN [i \in 1..Len(unanswered) |->
           LET q == unanswered[i]
               score == CalculateRecommendationScore(q, stats, jit[q.id])
           IN [question_id |-> q.id,
               score |-> score,
               reason |-> GenerateRecommendationReason(q, stats),
               priority |-> DeterminePriority(score)]]

\* recommend_questions, lines 729-769
RecommendQuestions(ua, qs, count, jit) ==
    Prefix(SortRecs(ScoreCandidates(ua, qs, jit)), count)

----------------------------------------------------------------------------
(***************************************************************************)
(* LearningSystem (learning_system.py:1041-1131) and the routes of app.py  *)
(* that use it.  A cache call that finds the mutex free runs to its end in *)
(* one step; a set on a full cache stops where C1 shows it to stop.        *)
(***************************************************************************)
NumUsers == 1
MaxHist == 2
Users == 1..NumUsers

\* the question bank of SpecLearn
LearnBank ==
    <<[id |-> 1, difficulty |-> "easy", qtype |-> "single", category |-> "c1"]>>

QuestionIds(qs) == {qs[i].id : i \in 1..Len(qs)}

\* lines 1068 and 1089, and app.py:2440: f"{kind}_{user_id}"
CacheKey(kind, u) == <<kind, u>>

LearnKeys ==
    {<<kind, u>> : kind \in {"progress", "statistics", "recommendations"}, u \in Users}

\* lines 1130-1131: the keys clear_user_cache deletes, in order
ClearSeq_ProgressOnly(u) == <<CacheKey("progress", u), CacheKey("progress", u)>>
ClearSeq(u) == <<CacheKey("progress", u), CacheKey("statistics", u)>>

\* lines 1074 and 1095: the analysis behind a kind of result
Analyze(kind, rows, qs) ==
    IF kind = "progress" THEN ProgressAnalyze(GetUserAnswers(rows), qs)
    ELSE StatisticsAnalyze(GetUserAnswers(rows), qs)

TotalRows == LET RECURSIVE Sum(_)
                 Sum(us) == IF us = {} THEN 0
                            ELSE LET u == CHOOSE x \in us : TRUE
                                 IN Len(history[u]) + Sum(us \ {u})
             IN Sum(Users)

\* what a cached result was computed from, and when
NoSnap == [user |-> 0, rows |-> <<>>, at |-> -1]

\* show_question, app.py:1443-1473 (POST): the question becomes the user's
\* current_seq_qid (line 1457) and one history row is inserted
RecordAnswer(u, q, c, bound) ==
    /\ TotalRows < bound
    /\ q \in QuestionIds(questions)
    /\ history' = [history EXCEPT ![u] = Append(@, [qid |-> q, correct |-> c])]
    /\ seqQid' = [seqQid EXCEPT ![u] = q]
    /\ resp' = None
    /\ UNCHANGED <<cacheVars, callVars, lastSet, ctorVars, questions, snap, seen,
                   invalidated, favorites, sessions, csvFile, qmCache, loggedIn,
                   examId>>

\* get_user_progress, lines 1068-1074, and get_user_statistics, lines
\* 1089-1095: cache_manager.get, then either the cached result is returned
\* or the analysis is run; its result is stored by LsSet.
LsGet(t, u, kind) ==
    /\ pc[t] = "idle"
    /\ lockOwner = NoThread
    /\ LET k == CacheKey(kind, u)
           cached == GetValue(cache, cacheTs, k, now)
       IN /\ IF GetExpires(cache, cacheTs, k, now)
             THEN /\ cache' = Without(cache, k)
                  /\ cacheTs' = Without(cacheTs, k)
                  /\ snap' = [snap EXCEPT ![k] = NoSnap]
             ELSE UNCHANGED <<cache, cacheTs, snap>>
          /\ IF cached # None
             THEN /\ resp' = Some([kind |-> kind, user |-> u, cached |-> TRUE,
                                   value |-> cached[1],
                                   current |-> history[u],
                                   src |-> [user |-> snap[k].user,
                                            rows |-> snap[k].rows],
                                   age |-> now - snap[k].at])
                  /\ UNCHANGED <<pc, op, key, val, seen>>
             ELSE /\ pc' = [pc EXCEPT ![t] = "ls_set"]
                  /\ op' = [op EXCEPT ![t] = kind]
                  /\ key' = [key EXCEPT ![t] = k]
                  /\ val' = [val EXCEPT ![t] = Analyze(kind, history[u], questions)]
                  /\ seen' = [seen EXCEPT ![t] = [user |-> u, rows |-> history[u]]]
                  /\ resp' = None
    /\ invalidated' = [invalidated EXCEPT ![<<kind, u>>] = "no"]
    /\ UNCHANGED <<lockOwner, now, ret, evicting, lastSet, ctorVars, questions,
                   history>>
    /\ UNCHANGED dbVars

\* lines 1075-1077 and 1096-1098: cache_manager.set(cache_key, result), then
\* the result is returned
LsSet(t) ==
    /\ pc[t] = "ls_set"
    /\ lockOwner = NoThread
    /\ LET evicts == CacheFull(cache) /\ DOMAIN cacheTs # {}
       IN \/ /\ evicts
             /\ lockOwner' = t
             /\ \E k \in OldestKeys(cacheTs) : evicting' = [evicting EXCEPT ![t] = k]
             /\ pc' = [pc EXCEPT ![t] = "evict_lock"]
             /\ resp' = None
             /\ UNCHANGED <<cache, cacheTs, snap, op, key, val, seen, invalidated>>
          \/ /\ ~evicts
             /\ cache' = With(cache, key[t], val[t])
             /\ cacheTs' = With(cacheTs, key[t], now)
             /\ snap' = [snap EXCEPT ![key[t]] =
                            [user |-> seen[t].user, rows |-> seen[t].rows,
                             at |-> now]]
             /\ invalidated' = [invalidated EXCEPT ![key[t]] = "no"]
             /\ resp' = Some([kind |-> op[t], user |-> seen[t].user,
                              cached |-> FALSE,
                              value |-> val[t],
                              current |-> seen[t].rows,
                              src |-> seen[t],
                              age |-> 0])
             /\ pc' = [pc EXCEPT ![t] = "idle"]
             /\ op' = [op EXCEPT ![t] = "get"]
             /\ key' = [key EXCEPT ![t] = NoKey]
             /\ val' = [val EXCEPT ![t] = 0]
             /\ seen' = [seen EXCEPT ![t] = <<>>]
             /\ UNCHANGED <<lockOwner, evicting>>
    /\ UNCHANGED <<now, ret, lastSet, ctorVars, questions, history>>
    /\ UNCHANGED dbVars

\* clear_user_cache, line 1130: cache_manager.delete(f"progress_{user_id}")
ClearUserCache(t, u) ==
    /\ pc[t] = "idle"
    /\ lockOwner = NoThread
    /\ cache' = Without(cache, ClearSeq(u)[1])
    /\ cacheTs' = Without(cacheTs, ClearSeq(u)[1])
    /\ snap' = [snap EXCEPT ![ClearSeq(u)[1]] = NoSnap]
    /\ pc' = [pc EXCEPT ![t] = "ls_clear"]
    /\ op' = [op EXCEPT ![t] = "delete"]
    /\ key' = [key EXCEPT ![t] = ClearSeq(u)[2]]
    /\ seen' = [seen EXCEPT ![t] = [user |-> u, rows |-> <<>>]]
    /\ invalidated' = [invalidated EXCEPT ![<<"progress", u>>] =
                          IF <<"progress", u>> \in DOMAIN cache
                          THEN "clear" ELSE "clear_none"]
    /\ resp' = None
    /\ UNCHANGED <<lockOwner, now, val, ret, evicting, lastSet, ctorVars, questions,
                   history>>
    /\ UNCHANGED dbVars

\* clear_user_cache, line 1131: cache_manager.delete(f"statistics_{user_id}")
ClearUserCacheNext(t) ==
    /\ pc[t] = "ls_clear"
    /\ lockOwner = NoThread
    /\ cache' = Without(cache, key[t])
    /\ cacheTs' = Without(cacheTs, key[t])
    /\ snap' = [snap EXCEPT ![key[t]] = NoSnap]
    /\ pc' = [pc EXCEPT ![t] = "idle"]
    /\ op' = [op EXCEPT ![t] = "get"]
    /\ key' = [key EXCEPT ![t] = NoKey]
    /\ seen' = [seen EXCEPT ![t] = <<>>]
    /\ invalidated' = [invalidated EXCEPT ![<<"statistics", seen[t].user>>] =
                          IF <<"statistics", seen[t].user>> \in DOMAIN cache
                          THEN "clear" ELSE "clear_none"]
    /\ resp' = None
    /\ UNCHANGED <<lockOwner, now, val, ret, evicting, lastSet, ctorVars, questions,
                   history>>
    /\ UNCHANGED dbVars

\* get_recommendations, app.py:2429-2453, over LearningSystem.get_recommendations,
\* lines 1100-1112: with the refresh parameter the key recommendations_<user>
\* is deleted first; the recommendations are computed on every request, with
\* one jitter drawn for each unanswered question.
GetRecommendations(t, u, refresh, count) ==
    /\ pc[t] = "idle"
    /\ IF refresh
       THEN /\ lockOwner = NoThread
            /\ cache' = Without(cache, CacheKey("recommendations", u))
            /\ cacheTs' = Without(cacheTs, CacheKey("recommendations", u))
            /\ snap' = [snap EXCEPT ![CacheKey("recommendations", u)] = NoSnap]
            /\ invalidated' =
                 [k \in DOMAIN invalidated |->
                    IF k \in {<<"progress", u>>, <<"statistics", u>>}
                       /\ k \in DOMAIN cache
                    THEN "refresh" ELSE invalidated[k]]
       ELSE UNCHANGED <<cache, cacheTs, snap, invalidated>>
    /\ \E jit \in [QuestionIds(questions)
                      \ {history[u][i].qid : i \in 1..Len(history[u])} -> Jitter] :
          resp' = Some([kind |-> "recommendations", user |-> u, refresh |-> refresh,
                        count |-> count,
                        candidates |-> ScoreCandidates(GetUserAnswers(history[u]),
                                                       questions, jit),
                        value |-> RecommendQuestions(GetUserAnswers(history[u]),
                                                     questions, count, jit)])
    /\ UNCHANGED <<lockOwner, now, callVars, lastSet, ctorVars, questions, history,
                   seen>>
    /\ UNCHANGED dbVars

\* The clock advances while requests are served.
TickLearn ==
    /\ now < MaxTime
    /\ now' = now + 1
    /\ resp' = None
    /\ UNCHANGED <<cache, cacheTs, lockOwner, callVars, lastSet, ctorVars, questions,
                   history, snap, seen, invalidated>>
    /\ UNCHANGED dbVars

\* the service as app.py:56 constructs it, before any request
ServiceInit ==
    /\ cache = Empty
    /\ cacheTs = Empty
    /\ lockOwner = NoThread
    /\ now = 0
    /\ pc = [t \in Threads |-> "idle"]
    /\ op = [t \in Threads |-> "get"]
    /\ key = [t \in Threads |-> NoKey]
    /\ val = [t \in Threads |-> 0]
    /\ ret = [t \in Threads |-> None]
    /\ evicting = [t \in Threads |-> NoKey]
    /\ lastSet = [k \in LearnKeys |-> -1]
    /\ instance = TRUE
    /\ initialized = "true"
    /\ classLock = NoThread
    /\ resp = None
    /\ snap = [k \in LearnKeys |-> NoSnap]
    /\ seen = [t \in Threads |-> <<>>]
    /\ invalidated = [k \in LearnKeys |-> "no"]
    /\ favorites = <<>>
    /\ seqQid = [u \in Users |-> NoKey]
    /\ sessions = <<>>

InitLearn ==
    /\ ServiceInit
    /\ csvFile = NoFile
    /\ qmCache = Empty
    /\ loggedIn = {}
    /\ examId = Empty
    /\ questions = LearnBank
    /\ history = [u \in Users |-> <<>>]

NextLearn ==
    \/ \E u \in Users : \E q \in QuestionIds(questions) : \E c \in BOOLEAN :
          RecordAnswer(u, q, c, MaxHist)
    \/ \E t \in Threads : \E u \in Users : \E kind \in {"progress", "statistics"} :
          LsGet(t, u, kind)
    \/ \E t \in Threads : LsSet(t)
    \/ \E t \in Threads : \E u \in Users : ClearUserCache(t, u)
    \/ \E t \in Threads : ClearUserCacheNext(t)
    \/ \E t \in Threads : \E u \in Users : \E refresh \in BOOLEAN :
          GetRecommendations(t, u, refresh, 10)
    \/ TickLearn

SpecLearn == InitLearn /\ [][NextLearn]_vars

----------------------------------------------------------------------------
(***************************************************************************)
(* StatisticsAnalyzer.analyze over drawn histories                         *)
(***************************************************************************)
NumCat == 6

\* one question per category
StatsBank ==
    [i \in 1..NumCat |->
        [id |-> i, difficulty |-> "easy", qtype |-> "single",
         category |-> ToString(i)]]

\* the answers given to the question of one category: two wrong ones, one
\* right in three, two right in four, three right in five
Blocks ==
    {<<FALSE, FALSE>>,
     <<TRUE, FALSE, FALSE>>,
     <<TRUE, TRUE, FALSE, FALSE>>,
     <<TRUE, TRUE, TRUE, FALSE, FALSE>>}

RowsOf(q, block) == [i \in 1..Len(block) |-> [qid |-> q, correct |-> block[i]]]

RECURSIVE Flatten(_, _)
Flatten(f, n) == IF n = 0 THEN <<>> ELSE Flatten(f, n - 1) \o RowsOf(n, f[n])

InitStats ==
    /\ ServiceInit
    /\ csvFile = NoFile
    /\ qmCache = Empty
    /\ loggedIn = {}
    /\ examId = Empty
    /\ questions = StatsBank
    /\ \/ \E f \in [1..NumCat -> Blocks] :
             history = [u \in Users |-> Flatten(f, NumCat)]
       \/ history = [u \in Users |-> <<>>]

\* StatisticsAnalyzer.analyze(user_id), lines 591-670
StatisticsAnalyzerAnalyze(u) ==
    /\ resp' = Some([kind |-> "analysis", user |-> u,
                     value |-> StatisticsAnalyze(GetUserAnswers(history[u]),
                                                 questions)])
    /\ UNCHANGED <<cacheVars, callVars, lastSet, ctorVars, questions, history, snap,
                   seen, invalidated>>
    /\ UNCHANGED dbVars

NextStats == \E u \in Users : StatisticsAnalyzerAnalyze(u)

SpecStats == InitStats /\ [][NextStats]_vars

----------------------------------------------------------------------------
(***************************************************************************)
(* RecommendationEngine.recommend_questions over growing histories         *)
(***************************************************************************)
MaxRecHist == 3

RecBank ==
    <<[id |-> 1, difficulty |-> "easy", qtype |-> "single", category |-> "A"],
      [id |-> 2, difficulty |-> "easy", qtype |-> "single", category |-> "A"],
      [id |-> 3, difficulty |-> "easy", qtype |-> "multi", category |-> "B"],
      [id |-> 4, difficulty |-> "hard", qtype |-> "multi", category |-> "B"]>>

\* the count parameter of /api/recommendations, app.py:2434
RecCounts == {-1, 3}

InitRec ==
    /\ ServiceInit
    /\ csvFile = NoFile
    /\ qmCache = Empty
    /\ loggedIn = {}
    /\ examId = Empty
    /\ questions = RecBank
    /\ history = [u \in Users |-> <<>>]

NextRec ==
    \/ \E u \in Users : \E q \in QuestionIds(questions) : \E c \in BOOLEAN :
          RecordAnswer(u, q, c, MaxRecHist)
    \/ \E u \in Users : \E count \in RecCounts :
          GetRecommendations(1, u, FALSE, count)

SpecRec == InitRec /\ [][NextRec]_vars

----------------------------------------------------------------------------
(***************************************************************************)
(* RecommendationEngine.recommend_wrong_questions over histories whose     *)
(* rows carry the time of the answer.  Time is counted in half days.       *)
(***************************************************************************)
MaxWrongHist == 3
HalfDaysPerDay == 2

\* the instants at which requests arrive: now, half a day later, a day and a
\* half later, 31 days later
Instants == <<0, 1, 3, 62>>

WrongBank ==
    <<[id |-> 1, difficulty |-> "easy", qtype |-> "single", category |-> "A"],
      [id |-> 2, difficulty |-> "hard", qtype |-> "multi", category |-> "B"]>>

\* the count parameter of /api/wrong_recommendations, app.py:2460
WrongCounts == {1, 5}

\* the orders in which a set can be iterated
Orders(S) ==
    {p \in [1..Cardinality(S) -> S] : \A i, j \in 1..Cardinality(S) : p[i] = p[j] => i = j}

\* timedelta.days, line 873
DaysBetween(from, to) == (to - from) \div HalfDaysPerDay

\* LearningProgressTracker.get_wrong_questions, lines 503-528, iterating the
\* set of wrong question ids in a given order
GetWrongQuestions(ua, qs, order) ==
    LET found == SelectSeq(order, LAMBDA qid : GetQuestion(qs, qid) # None)
    IN [i \in 1..Len(found) |-> GetQuestion(qs, found[i])[1]]

\* lines 857-861: the dict comprehension keeps, for a question, the wrong
\* answer that comes last in user_answers
WrongAnswerOf(ua, qid) ==
    LET hits == {i \in 1..Len(ua) : ua[i].qid = qid /\ ~ua[i].correct}
    IN ua[CHOOSE i \in hits : \A j \in hits : j <= i]

\* recommend_wrong_questions, lines 840-886, called at time t
RecommendWrongQuestions(ua, qs, count, order, t) ==
    LET wrong == Prefix(GetWrongQuestions(ua, qs, order), count)
        recs == [i \in 1..Len(wrong) |->
                    LET errorCount == Cardinality({n \in 1..Len(ua) :
                                         ua[n].qid = wrong[i].id /\ ~ua[n].correct})
                        days == DaysBetween(WrongAnswerOf(ua, wrong[i].id).at, t)
                    IN [question_id |-> wrong[i].id,
                        score |-> Min(MaxScore, errorCount * 20 + days * 2),
                        reason |-> errorCount,
                        priority |-> IF errorCount >= 2 THEN 1 ELSE 2]]
    IN SortRecs(recs)

\* show_question, app.py:1443-1473 (POST): the row carries the local time
RecordAnswerAt(u, q, c) ==
    /\ Len(history[u]) < MaxWrongHist
    /\ q \in QuestionIds(questions)
    /\ history' = [history EXCEPT ![u] =
                      Append(@, [qid |-> q, correct |-> c, at |-> now])]
    /\ seqQid' = [seqQid EXCEPT ![u] = q]
    /\ resp' = None
    /\ UNCHANGED <<cacheVars, callVars, lastSet, ctorVars, questions, snap, seen,
                   invalidated, favorites, sessions, csvFile, qmCache, loggedIn,
                   examId>>

\* get_wrong_recommendations, app.py:2455-2473
GetWrongRecommendations(u, count) ==
    /\ \E order \in Orders({history[u][i].qid :
                              i \in {n \in 1..Len(history[u]) : ~history[u][n].correct}}) :
          resp' = Some([kind |-> "wrong", user |-> u, count |-> count, at |-> now,
                        value |-> RecommendWrongQuestions(GetUserAnswers(history[u]),
                                                          questions, count, order, now)])
    /\ UNCHANGED <<cacheVars, callVars, lastSet, ctorVars, questions, history, snap,
                   seen, invalidated>>
    /\ UNCHANGED dbVars

\* time passes to the next instant
NextInstant ==
    /\ \E i \in 1..(Len(Instants) - 1) : now = Instants[i] /\ now' = Instants[i + 1]
    /\ resp' = None
    /\ UNCHANGED <<cache, cacheTs, lockOwner, callVars, lastSet, ctorVars, questions,
                   history, snap, seen, invalidated>>
    /\ UNCHANGED dbVars

InitWrong ==
    /\ ServiceInit
    /\ csvFile = NoFile
    /\ qmCache = Empty
    /\ loggedIn = {}
    /\ examId = Empty
    /\ questions = WrongBank
    /\ history = [u \in Users |-> <<>>]

NextWrong ==
    \/ \E u \in Users : \E q \in QuestionIds(questions) : \E c \in BOOLEAN :
          RecordAnswerAt(u, q, c)
    \/ \E u \in Users : \E count \in WrongCounts : GetWrongRecommendations(u, count)
    \/ NextInstant

SpecWrong == InitWrong /\ [][NextWrong]_vars

-----------------------------------------------------------------------------
\* Loading questions.csv, app.py:161-256 and tools/reimport_questions.py.
\* SpecCsv: every file of up to MaxRows rows over the cells below, loaded by
\* reload_questions and by the reimport tool.  A row is its cells 题号, 题干,
\* 答案 and one cell for each option letter; the columns 难度, 题型 and 类别
\* are stripped and stored like 答案 and are left out.  The stored options
\* are the dict that json.dumps writes and json.loads reads back.

MaxRows == 2
NumLetters == 2

\* csv.DictReader's value for a field the row is too short to have
NoCell == "<None>"

Letters == {<<"A", "B", "C", "D", "E">>[i] : i \in 1..NumLetters}

IdCells == {"", " ", "1", " 1", "2"}
StemCells == {"", "s", "t "}
AnswerCells == {NoCell, "A"}
OptionCells == {"", " ", "a "}

CsvRows ==
    [id : IdCells, stem : StemCells, answer : AnswerCells,
     opts : [Letters -> OptionCells]]

CsvFiles ==
    {NoFile, [exists |-> TRUE, decodable |-> FALSE, rows |-> <<>>]}
    \cup {[exists |-> TRUE, decodable |-> TRUE, rows |-> rs] :
            rs \in UNION {[1..n -> CsvRows] : n \in 0..MaxRows}}

\* str.strip() on the cells above
Strip(cell) ==
    CASE cell = " " -> ""
      [] cell = " 1" -> "1"
      [] cell = "t " -> "t"
      [] cell = "a " -> "a"
      [] cell = " 3" -> "3"
      [] cell = "3 " -> "3"
      [] OTHER -> cell

\* Python's truth value of a cell: None and "" are false
Truthy(cell) == cell # NoCell /\ cell # ""

\* a variant that keeps an entry for every letter
ParseOptions_EveryLetter(row) ==
    [l \in Letters |-> IF Truthy(row.opts[l]) THEN Strip(row.opts[l]) ELSE ""]

\* lines 201-205, and tools/reimport_questions.py:52-56
ParseOptions(row) ==
    [l \in {x \in Letters : Truthy(row.opts[x]) /\ Strip(row.opts[x]) # ""}
       |-> Strip(row.opts[l])]

\* INSERT OR REPLACE INTO questions, line 209: id is the primary key
InsertOrReplace(table, q) == Append(SelectSeq(table, LAMBDA r : r.id # q.id), q)

\* lines 192-227: the rows from the i-th on; row_num starts at 2
RECURSIVE LoadRows_StopAtError(_, _, _, _, _)
LoadRows_StopAtError(rows, i, table, count, errors) ==
    IF i > Len(rows)
    THEN [success |-> TRUE, count |-> count, errors |-> errors, table |-> table]
    ELSE LET row == rows[i]
         IN IF ~Truthy(row.id) \/ ~Truthy(row.stem)
            THEN [success |-> TRUE, count |-> count,
                  errors |-> Append(errors, [line |-> i + 1, kind |-> "missing"]),
                  table |-> table]
            ELSE IF row.answer = NoCell
            THEN [success |-> TRUE, count |-> count,
                  errors |-> Append(errors, [line |-> i + 1, kind |-> "error"]),
                  table |-> table]
            ELSE LoadRows_StopAtError(rows, i + 1,
                     InsertOrReplace(table,
                         [id |-> Strip(row.id), stem |-> Strip(row.stem),
                          answer |-> Strip(row.answer),
                          options |-> ParseOptions(row)]),
                     count + 1, errors)

RECURSIVE LoadRows(_, _, _, _, _)
LoadRows(rows, i, table, count, errors) ==
    IF i > Len(rows)
    THEN [success |-> TRUE, count |-> count, errors |-> errors, table |-> table]
    ELSE LET row == rows[i]
         IN IF ~Truthy(row.id) \/ ~Truthy(row.stem)
            THEN LoadRows(rows, i + 1, table, count,
                          Append(errors, [line |-> i + 1, kind |-> "missing"]))
            ELSE IF row.answer = NoCell
            THEN \* row["答案"].strip() raises AttributeError, lines 221-226
                 LoadRows(rows, i + 1, table, count,
                          Append(errors, [line |-> i + 1, kind |-> "error"]))
            ELSE LoadRows(rows, i + 1,
                     InsertOrReplace(table,
                         [id |-> Strip(row.id), stem |-> Strip(row.stem),
                          answer |-> Strip(row.answer),
                          options |-> ParseOptions(row)]),
                     count + 1, errors)

\* load_questions_to_db, lines 161-256.  The header holds non-ASCII names,
\* so an encoding that cannot read the file fails before any row is read.
LoadQuestionsToDb(file, table) ==
    IF ~file.exists
    THEN [success |-> FALSE, count |-> 0,
          errors |-> <<[line |-> 0, kind |-> "not_found"]>>, table |-> table]
    ELSE IF ~file.decodable
    THEN [success |-> FALSE, count |-> 0,
          errors |-> <<[line |-> 0, kind |-> "encodings"]>>, table |-> table]
    ELSE LoadRows(file.rows, 1, table, 0, <<>>)

\* a variant that also deletes the favorites of the deleted questions
ReloadQuestions_Cascade(u) ==
    LET result == LoadQuestionsToDb(csvFile, <<>>)
    IN /\ questions' = result.table
       /\ favorites' = SelectSeq(favorites,
                                 LAMBDA r : r.qid \notin QuestionIds(questions))
       /\ resp' = Some([kind |-> "reload", user |-> u, success |-> result.success,
                        count |-> result.count, errors |-> result.errors])
       /\ UNCHANGED <<cacheVars, callVars, lastSet, ctorVars, history, snap, seen,
                      invalidated, seqQid, sessions, csvFile, qmCache, loggedIn,
                   examId>>

\* reload_questions, app.py:1337-1407: DELETE FROM questions, commit, load
ReloadQuestions(u) ==
    LET result == LoadQuestionsToDb(csvFile, <<>>)
    IN /\ questions' = result.table
       /\ resp' = Some([kind |-> "reload", user |-> u, success |-> result.success,
                        count |-> result.count, errors |-> result.errors])
       /\ UNCHANGED <<cacheVars, callVars, lastSet, ctorVars, history, snap, seen,
                      invalidated, dbVars>>

\* the rows tools/reimport_questions.py inserts, lines 47-71: cells unstripped
ToolRows(rows) ==
    [i \in 1..Len(rows) |->
        [id |-> rows[i].id, stem |-> rows[i].stem, answer |-> rows[i].answer,
         options |-> ParseOptions(rows[i])]]

\* reading or inserting raises: no file or not utf-8 (lines 35-40), a NULL
\* answer or a second row with the same id (lines 58-69)
InsertFails(file) ==
    \/ ~file.exists
    \/ ~file.decodable
    \/ \E i \in 1..Len(file.rows) : file.rows[i].answer = NoCell
    \/ \E i, j \in 1..Len(file.rows) : i # j /\ file.rows[i].id = file.rows[j].id

\* the script raises: as above, or DELETE FROM questions removes a row that
\* favorites references, under PRAGMA foreign_keys=ON (lines 42-45)
ToolFails(file) ==
    \/ InsertFails(file)
    \/ \E i \in 1..Len(favorites) : favorites[i].qid \in QuestionIds(questions)

\* tools/reimport_questions.py, reimport: one transaction, committed at the end
ReimportQuestions ==
    /\ questions' = IF ToolFails(csvFile) THEN questions ELSE ToolRows(csvFile.rows)
    /\ resp' = Some([kind |-> "reimport", user |-> 0,
                     success |-> ~ToolFails(csvFile),
                     count |-> IF ToolFails(csvFile) THEN 0 ELSE Len(csvFile.rows),
                     errors |-> <<>>])
    /\ UNCHANGED <<cacheVars, callVars, lastSet, ctorVars, history, snap, seen,
                   invalidated, dbVars>>

InitCsv ==
    /\ ServiceInit
    /\ csvFile \in CsvFiles
    /\ qmCache = Empty
    /\ loggedIn = {}
    /\ examId = Empty
    /\ questions = <<>>
    /\ history = [u \in Users |-> <<>>]

NextCsv ==
    \/ \E u \in Users : ReloadQuestions(u)
    \/ ReimportQuestions

SpecCsv == InitCsv /\ [][NextCsv]_vars

----------------------------------------------------------------------------
(***************************************************************************)
(* The tables of database.db under the routes of app.py and the tools of   *)
(* src/tools that write them.  A request runs its statements and commits   *)
(* in one step.                                                            *)
(***************************************************************************)
\* the rows questions.csv holds
DbFile ==
    [exists |-> TRUE, decodable |-> TRUE,
     rows |-> <<[id |-> "1", stem |-> "s", answer |-> "A",
                 opts |-> [l \in Letters |-> "a "]],
                [id |-> "2", stem |-> "s", answer |-> "A",
                 opts |-> [l \in Letters |-> ""]]>>]

\* a later edit of the file: one row, and a row without 题干
DbFileEdited ==
    [exists |-> TRUE, decodable |-> TRUE,
     rows |-> <<[id |-> "2", stem |-> "t ", answer |-> "A",
                 opts |-> [l \in Letters |-> " "]],
                [id |-> "1", stem |-> "", answer |-> "A",
                 opts |-> [l \in Letters |-> ""]]>>]

\* the file saved in an encoding that none of those tried can read,
\* app.py:237-239
DbFileUnreadable == [exists |-> TRUE, decodable |-> FALSE, rows |-> <<>>]

DbFiles == {NoFile, DbFileUnreadable, DbFile, DbFileEdited}

\* the questions table init_db loaded from the file, app.py:143-149
DbBank == LoadQuestionsToDb(DbFile, <<>>).table

MaxSessions == 1
MaxExamQuestions == 2
\* the score of a session that was not submitted (NULL)
NoScore == -1

\* a variant that deletes only the user's latest row
ResetHistory_DropsLast(u) ==
    /\ history' = [history EXCEPT ![u] = SubSeq(@, 1, Len(@) - 1)]
    /\ seqQid' = [seqQid EXCEPT ![u] = NoKey]
    /\ resp' = Some([kind |-> "reset", user |-> u, deleted |-> Len(history[u])])
    /\ UNCHANGED <<cacheVars, callVars, lastSet, ctorVars, questions, snap, seen,
                   invalidated, favorites, sessions, csvFile, qmCache, loggedIn,
                   examId>>

\* reset_history, app.py:1317-1335: all history rows of the user are deleted
\* and the user's current_seq_qid is set to NULL
ResetHistory(u) ==
    /\ history' = [history EXCEPT ![u] = <<>>]
    /\ seqQid' = [seqQid EXCEPT ![u] = NoKey]
    /\ resp' = Some([kind |-> "reset", user |-> u, deleted |-> Len(history[u])])
    /\ UNCHANGED <<cacheVars, callVars, lastSet, ctorVars, questions, snap, seen,
                   invalidated, favorites, sessions, csvFile, qmCache, loggedIn,
                   examId>>

\* tools/reset_and_reimport.py, main, lines 33-77: history, favorites,
\* exam_sessions and questions are emptied and the rows of questions.csv are
\* inserted, in one transaction
ResetAndReimport ==
    /\ IF InsertFails(csvFile)
       THEN UNCHANGED <<history, favorites, sessions, questions>>
       ELSE /\ history' = [u \in Users |-> <<>>]
            /\ favorites' = <<>>
            /\ sessions' = <<>>
            /\ questions' = ToolRows(csvFile.rows)
    /\ resp' = Some([kind |-> "tool", user |-> 0,
                     deleted |-> IF InsertFails(csvFile) THEN 0 ELSE TotalRows])
    /\ UNCHANGED <<cacheVars, callVars, lastSet, ctorVars, snap, seen, invalidated,
                   seqQid,
                   csvFile, qmCache, loggedIn,
                   examId>>

\* the tag of update_tag, app.py:1816
Tags == {"", "x"}

\* the favorites rows of a user for a question
FavoriteRows(u, q) ==
    {i \in 1..Len(favorites) : favorites[i].user = u /\ favorites[i].qid = q}

\* a variant whose INSERT does not ignore an existing row
FavoriteQuestion_Insert(u, q) ==
    /\ favorites' = Append(favorites, [user |-> u, qid |-> q, tag |-> ""])
    /\ resp' = Some([kind |-> "favorite", user |-> u, qid |-> q])
    /\ UNCHANGED <<cacheVars, callVars, lastSet, ctorVars, questions, history, snap,
                   seen, invalidated, seqQid, sessions, csvFile, qmCache, loggedIn,
                   examId>>

\* favorite_question, app.py:1758-1781: INSERT OR IGNORE under
\* UNIQUE(user_id, question_id), app.py:123
FavoriteQuestion(u, q) ==
    /\ favorites' = IF FavoriteRows(u, q) # {} THEN favorites
                    ELSE Append(favorites, [user |-> u, qid |-> q, tag |-> ""])
    /\ resp' = Some([kind |-> "favorite", user |-> u, qid |-> q])
    /\ UNCHANGED <<cacheVars, callVars, lastSet, ctorVars, questions, history, snap,
                   seen, invalidated, seqQid, sessions, csvFile, qmCache, loggedIn,
                   examId>>

\* unfavorite_question, app.py:1783-1806
UnfavoriteQuestion(u, q) ==
    /\ favorites' = SelectSeq(favorites, LAMBDA r : ~(r.user = u /\ r.qid = q))
    /\ resp' = Some([kind |-> "unfavorite", user |-> u, qid |-> q])
    /\ UNCHANGED <<cacheVars, callVars, lastSet, ctorVars, questions, history, snap,
                   seen, invalidated, seqQid, sessions, csvFile, qmCache, loggedIn,
                   examId>>

\* update_tag, app.py:1808-1829
UpdateTag(u, q, tag) ==
    /\ favorites' = [i \in 1..Len(favorites) |->
                        IF i \in FavoriteRows(u, q)
                        THEN [favorites[i] EXCEPT !.tag = tag]
                        ELSE favorites[i]]
    /\ resp' = Some([kind |-> "update_tag", user |-> u, qid |-> q])
    /\ UNCHANGED <<cacheVars, callVars, lastSet, ctorVars, questions, history, snap,
                   seen, invalidated, seqQid, sessions, csvFile, qmCache, loggedIn,
                   examId>>

\* fetch_random_question_ids, app.py:374-389: ORDER BY RANDOM() LIMIT n gives
\* n distinct ids in any order, all of them when the table holds fewer
RandomQuestionIds(qs, n) ==
    LET ids == QuestionIds(qs)
        k == IF n < Cardinality(ids) THEN n ELSE Cardinality(ids)
    IN {s \in [1..k -> ids] : \A i, j \in 1..k : s[i] = s[j] => i = j}

\* the inserts of start_exam, app.py:2165-2194, and start_timed_mode,
\* app.py:2038-2071: the new row has completed = 0 and no score, and its id
\* becomes the current_exam_id of the client's session
StartSession(u, mode, bound) ==
    /\ Len(sessions) < bound
    /\ \E n \in 0..MaxExamQuestions : \E ids \in RandomQuestionIds(questions, n) :
          sessions' = Append(sessions, [user |-> u, mode |-> mode, qids |-> ids,
                                        completed |-> FALSE, score |-> NoScore])
    /\ examId' = (u :> (Len(sessions) + 1)) @@ examId
    /\ resp' = Some([kind |-> "start_exam", user |-> u])
    /\ UNCHANGED <<cacheVars, callVars, lastSet, ctorVars, questions, history, snap,
                   seen, invalidated, favorites, seqQid, csvFile, qmCache, loggedIn>>

StartExam(u) == StartSession(u, "exam", MaxSessions)

InitDb ==
    /\ ServiceInit
    /\ csvFile \in DbFiles
    /\ qmCache = Empty
    /\ loggedIn = {}
    /\ examId = Empty
    /\ questions = DbBank
    /\ history = [u \in Users |-> <<>>]

NextDb ==
    \/ \E u \in Users : \E q \in QuestionIds(questions) : \E c \in BOOLEAN :
          RecordAnswer(u, q, c, MaxHist)
    \/ \E u \in Users : ResetHistory(u)
    \/ ResetAndReimport
    \/ \E u \in Users : \E q \in QuestionIds(DbBank) : FavoriteQuestion(u, q)
    \/ \E u \in Users : \E q \in QuestionIds(DbBank) : UnfavoriteQuestion(u, q)
    \/ \E u \in Users : \E q \in QuestionIds(DbBank) : \E tag \in Tags :
          UpdateTag(u, q, tag)
    \/ \E u \in Users : StartExam(u)
    \/ \E u \in Users : ReloadQuestions(u)
    \/ ReimportQuestions

SpecDb == InitDb /\ [][NextDb]_vars

-----------------------------------------------------------------------------
\* Sequential mode, app.py:1860-2003.  SpecSeq: one user's requests to
\* /sequential_start and /sequential/<qid> over a bank of three questions,
\* with reset_history.  Ids are numeric strings, compared as integers by
\* CAST(id AS INTEGER).

MaxSeqHist == 4

SeqBank ==
    <<[id |-> 1, difficulty |-> "easy", qtype |-> "single", category |-> "A"],
      [id |-> 2, difficulty |-> "easy", qtype |-> "single", category |-> "A"],
      [id |-> 3, difficulty |-> "hard", qtype |-> "multi", category |-> "B"]>>

SetMin(S) == CHOOSE x \in S : \A y \in S : x <= y

\* SELECT id FROM questions WHERE id NOT IN (SELECT question_id FROM history
\* WHERE user_id = ?), lines 1877-1885 and 1971-1978
UnansweredIds(rows, qs) == QuestionIds(qs) \ {rows[i].qid : i \in 1..Len(rows)}

\* ORDER BY CAST(id AS INTEGER) ASC LIMIT 1: NoKey when there is no row
FirstId(S) == IF S = {} THEN NoKey ELSE SetMin(S)

\* a variant that ignores the id just answered
NextSeqQid_FromStart(rows, qs, q) ==
    LET un == UnansweredIds(rows, qs)
    IN IF un # {} THEN SetMin(un) ELSE FirstId(QuestionIds(qs))

\* lines 1953-2000: the position stored after an answer to q
NextSeqQid(rows, qs, q) ==
    LET un == UnansweredIds(rows, qs)
        higher == {x \in un : x > q}
    IN IF higher # {} THEN SetMin(higher)
       ELSE IF un # {} THEN SetMin(un)
       ELSE FirstId(QuestionIds(qs))

\* History of the run: "fresh" while the user has followed the stored
\* position since a sequential_start with no history and no stored position,
\* "saved" while they have followed it since a start with no history and a
\* stored position, "none" otherwise; it is kept in the response, so a
\* request of another user ends it.
SeqKinds == {"seq_start", "seq_view", "seq_answer"}
RunOf(r, u) ==
    IF r # None /\ r[1].kind \in SeqKinds /\ r[1].user = u THEN r[1].run
    ELSE "none"

\* sequential_start, lines 1860-1916
SequentialStart(u) ==
    LET un == UnansweredIds(history[u], questions)
        current == IF seqQid[u] # NoKey THEN seqQid[u]
                   ELSE IF un # {} THEN SetMin(un)
                   ELSE FirstId(QuestionIds(questions))
        run == IF history[u] = <<>>
               THEN (IF seqQid[u] = NoKey THEN "fresh" ELSE "saved")
               ELSE RunOf(resp, u)
    IN /\ seqQid' = [seqQid EXCEPT ![u] = current]
       /\ resp' = Some([kind |-> "seq_start", user |-> u, qid |-> current,
                        next |-> current, run |-> run])
       /\ UNCHANGED <<cacheVars, callVars, lastSet, ctorVars, questions, history,
                      snap, seen, invalidated, favorites, sessions, csvFile, qmCache, loggedIn,
                   examId>>

\* show_sequential_question, GET: lines 1920-1939
ViewSequential(u, q) ==
    /\ q \in QuestionIds(questions)
    /\ seqQid' = [seqQid EXCEPT ![u] = q]
    /\ resp' = Some([kind |-> "seq_view", user |-> u, qid |-> q, next |-> q,
                     run |-> IF q = seqQid[u] THEN RunOf(resp, u) ELSE "none"])
    /\ UNCHANGED <<cacheVars, callVars, lastSet, ctorVars, questions, history,
                   snap, seen, invalidated, favorites, sessions, csvFile, qmCache, loggedIn,
                   examId>>

\* show_sequential_question, POST: lines 1920-2003 and the commit of line 2013
AnswerSequential(u, q, c) ==
    /\ Len(history[u]) < MaxSeqHist
    /\ q \in QuestionIds(questions)
    /\ LET rows == Append(history[u], [qid |-> q, correct |-> c])
           next == NextSeqQid(rows, questions, q)
       IN /\ history' = [history EXCEPT ![u] = rows]
          /\ seqQid' = [seqQid EXCEPT ![u] = next]
          /\ resp' = Some([kind |-> "seq_answer", user |-> u, qid |-> q,
                           next |-> next,
                           run |-> IF q = seqQid[u] THEN RunOf(resp, u) ELSE "none"])
    /\ UNCHANGED <<cacheVars, callVars, lastSet, ctorVars, questions, snap, seen,
                   invalidated, favorites, sessions, csvFile, qmCache, loggedIn,
                   examId>>

InitSeq ==
    /\ ServiceInit
    /\ csvFile = NoFile
    /\ qmCache = Empty
    /\ loggedIn = {}
    /\ examId = Empty
    /\ questions = SeqBank
    /\ history = [u \in Users |-> <<>>]

NextSeq ==
    \/ \E u \in Users : SequentialStart(u)
    \/ \E u \in Users : \E q \in QuestionIds(SeqBank) : ViewSequential(u, q)
    \/ \E u \in Users : \E q \in QuestionIds(SeqBank) : \E c \in BOOLEAN :
          AnswerSequential(u, q, c)
    \/ \E u \in Users : ResetHistory(u)

SpecSeq == InitSeq /\ [][NextSeq]_vars

-----------------------------------------------------------------------------
\* execute_and_check_code, app.py:1001-1110.  SpecExec: submissions of
\* programs of up to MaxCodeLen tokens against an expected output; what the
\* child process does is the environment's choice.

MaxCodeLen == 2

\* pieces of program text; a program is a sequence of them
Tokens == {"import ", "os", "EVAL", "print(3)"}
Codes == UNION {[1..n -> Tokens] : n \in 0..MaxCodeLen}

\* str.lower() on the tokens
Lower(tok) == IF tok = "EVAL" THEN "eval" ELSE tok

\* two of dangerous_keywords, lines 1026-1028, as sequences of tokens
DangerousKeywords == {<<"import ", "os">>, <<"eval">>}

\* keyword.lower() in code_lower, lines 1030-1032
ContainsKeyword(code) ==
    \E kw \in DangerousKeywords : \E i \in 1..Len(code) :
        /\ i + Len(kw) - 1 <= Len(code)
        /\ \A j \in 1..Len(kw) : Lower(code[i + j - 1]) = Lower(kw[j])

\* expected_output: the text the output is compared with, taken from the
\* whole string or from its output line (lines 1036-1053); the input line
\* only feeds the child's stdin
ExpectedOutputs == [output : {"3", " 3", "4"}]

\* expected_clean, lines 1038 and 1053
ExpectedClean(e) == Strip(e.output)

\* what subprocess.run does: the child exits with a return code, the 5
\* seconds pass (TimeoutExpired), or the call raises another exception
Outcomes ==
    [kind : {"exit"}, returncode : {0, 1}, stdout : {"3", "3 ", "4"},
     stderr : {" ", "Traceback"}]
    \cup {[kind |-> k, returncode |-> 0, stdout |-> "", stderr |-> ""] :
             k \in {"timeout", "exception"}}

\* a variant without the default message
ExitError_NoDefault(stderr) == Strip(stderr)

\* lines 1078-1081: process.stderr.strip() or a default; re.sub replaces the
\* file paths of a non-empty message and leaves it non-empty
ExitError(stderr) == IF Strip(stderr) # "" THEN Strip(stderr) ELSE "run failed"

\* the whole function; executed tells whether subprocess.run was called
ExecuteAndCheckCode(code, expected, outcome) ==
    LET base == [kind |-> "exec", code |-> code, expected |-> expected,
                 outcome |-> outcome, executed |-> TRUE, correct |-> FALSE,
                 output |-> "", error |-> ""]
        result ==
            IF ContainsKeyword(code)
            THEN [base EXCEPT !.executed = FALSE, !.error = "forbidden",
                              !.outcome = [kind |-> "none", returncode |-> 0,
                                           stdout |-> "", stderr |-> ""]]
            ELSE IF outcome.kind = "timeout"
            THEN [base EXCEPT !.error = "timeout"]
            ELSE IF outcome.kind = "exception"
            THEN [base EXCEPT !.error = "exception"]
            ELSE IF outcome.returncode # 0
            THEN [base EXCEPT !.output = Strip(outcome.stdout),
                              !.error = ExitError(outcome.stderr)]
            ELSE IF Strip(Strip(outcome.stdout)) = Strip(ExpectedClean(expected))
            THEN [base EXCEPT !.output = Strip(outcome.stdout), !.correct = TRUE]
            ELSE [base EXCEPT !.output = Strip(outcome.stdout),
                              !.error = "mismatch"]
    IN /\ resp' = Some(result)
       /\ UNCHANGED <<cacheVars, callVars, lastSet, ctorVars, questions, history,
                      snap, seen, invalidated, dbVars>>

InitExec ==
    /\ ServiceInit
    /\ csvFile = NoFile
    /\ qmCache = Empty
    /\ loggedIn = {}
    /\ examId = Empty
    /\ questions = <<>>
    /\ history = [u \in Users |-> <<>>]

NextExec ==
    \E code \in Codes : \E expected \in ExpectedOutputs : \E outcome \in Outcomes :
        ExecuteAndCheckCode(code, expected, outcome)

SpecExec == InitExec /\ [][NextExec]_vars

-----------------------------------------------------------------------------
\* The question bank under replacement, learning_system.py:296-332 and
\* app.py:1337-1407.  SpecBank: answers, lookups through the QuestionManager
\* that learning_system holds for the life of the process, the two analyzers,
\* and reloads that replace the rows of questions.

MaxBankHist == 3

BankOld ==
    <<[id |-> 1, difficulty |-> "easy", qtype |-> "single", category |-> "A"],
      [id |-> 2, difficulty |-> "hard", qtype |-> "multi", category |-> "B"]>>

\* question 1 with other labels and no category, question 2 removed
BankNew ==
    <<[id |-> 1, difficulty |-> "hard", qtype |-> "single", category |-> ""]>>

\* what the questions table holds after a reload: the rows of the file, or
\* nothing when the load fails after DELETE FROM questions was committed
Banks == {BankOld, BankNew, <<>>}

\* a variant that always reads the table
QmLookup_Uncached(qc, qs, qid) == GetQuestion(qs, qid)

\* QuestionManager.get_question, lines 309-332: the value returned
QmLookup(qc, qs, qid) ==
    IF qid \in DOMAIN qc THEN Some(qc[qid]) ELSE GetQuestion(qs, qid)

\* lines 324-330: the cache after get_question was called for each of ids
QmStore(qc, qs, ids) ==
    [x \in (DOMAIN qc) \cup {i \in ids : GetQuestion(qs, i) # None} |->
        IF x \in DOMAIN qc THEN qc[x] ELSE GetQuestion(qs, x)[1]]

\* the questions get_question returns for ids, as a list
RECURSIVE QmView(_, _, _)
QmView(qc, qs, ids) ==
    IF ids = {} THEN <<>>
    ELSE LET i == CHOOSE x \in ids : TRUE
         IN QmLookup(qc, qs, i) \o QmView(qc, qs, ids \ {i})

\* a call of question_manager.get_question, e.g. app.py:704
QmGetQuestion(qid) ==
    /\ resp' = Some([kind |-> "question", user |-> 0, qid |-> qid,
                     value |-> QmLookup(qmCache, questions, qid)])
    /\ qmCache' = QmStore(qmCache, questions, {qid})
    /\ UNCHANGED <<cacheVars, callVars, lastSet, ctorVars, questions, history,
                   snap, seen, invalidated, favorites, seqQid, sessions, csvFile,
                   loggedIn, examId>>

\* StatisticsAnalyzer.analyze, lines 591-670, with its lookups (line 623)
AnalyzeThroughManager(u) ==
    LET ids == {history[u][i].qid : i \in 1..Len(history[u])}
    IN /\ resp' = Some([kind |-> "manager_analysis", user |-> u,
                        value |-> StatisticsAnalyze(GetUserAnswers(history[u]),
                                      QmView(qmCache, questions, ids))])
       /\ qmCache' = QmStore(qmCache, questions, ids)
       /\ UNCHANGED <<cacheVars, callVars, lastSet, ctorVars, questions, history,
                      snap, seen, invalidated, favorites, seqQid, sessions,
                      csvFile, loggedIn, examId>>

\* LearningProgressTracker.analyze, lines 442-497
TrackerAnalyze(u) ==
    /\ resp' = Some([kind |-> "tracker", user |-> u,
                     value |-> ProgressAnalyze(GetUserAnswers(history[u]),
                                               questions)])
    /\ UNCHANGED <<cacheVars, callVars, lastSet, ctorVars, questions, history,
                   snap, seen, invalidated, dbVars>>

\* reload_questions, app.py:1337-1407, with a file that holds the rows of b
ReloadBank(u, b) ==
    /\ b # questions
    /\ questions' = b
    /\ resp' = Some([kind |-> "bank_reload", user |-> u])
    /\ UNCHANGED <<cacheVars, callVars, lastSet, ctorVars, history, snap, seen,
                   invalidated, dbVars>>

InitBank ==
    /\ ServiceInit
    /\ csvFile = NoFile
    /\ qmCache = Empty
    /\ loggedIn = {}
    /\ examId = Empty
    /\ questions = BankOld
    /\ history = [u \in Users |-> <<>>]

NextBank ==
    \/ \E u \in Users : \E q \in QuestionIds(questions) : \E c \in BOOLEAN :
          RecordAnswer(u, q, c, MaxBankHist)
    \/ \E qid \in QuestionIds(BankOld) : QmGetQuestion(qid)
    \/ \E u \in Users : AnalyzeThroughManager(u)
    \/ \E u \in Users : TrackerAnalyze(u)
    \/ \E u \in Users : \E b \in Banks : ReloadBank(u, b)

SpecBank == InitBank /\ [][NextBank]_vars

(***************************************************************************)
(* Login and the exam and timed sessions (SpecExam).  Flask keeps the      *)
(* session in a cookie of the client (app.py:47-49, no server-side         *)
(* store): loggedIn is the set of clients whose cookie holds user_id and   *)
(* examId maps a client to the current_exam_id of its cookie.  Each        *)
(* client u holds the account of user u.  In SpecExam a client reads the   *)
(* response of a request before it sends the next one.                     *)
(***************************************************************************)
MaxExams == 2
MaxAuthHist == 1

\* the rows of the users table: the account of user u
UserName(u) == <<"user", u>>
Password(u) == <<"pw", u>>
\* the form fields of a login request; EmptyField is an empty field
EmptyField == <<>>
LoginNames(u) == {UserName(u), <<"nobody", 0>>, EmptyField}
LoginPasswords(u) == {Password(u), <<"bad", 0>>, EmptyField}

\* a variant of login_required that calls the route whoever asks
LoginRequired_NoCheck(u, name, Route) == Route

\* login_required, app.py:265-283: without user_id in the session the
\* route is not called and the client is sent to the login page
LoginRequired(u, name, Route) ==
    IF u \in loggedIn
    THEN Route
    ELSE /\ resp' = Some([kind |-> "redirect_login", user |-> u, route |-> name])
         /\ UNCHANGED <<cacheVars, callVars, lastSet, ctorVars, questions, history,
                        snap, seen, invalidated, dbVars>>

\* login, POST, app.py:457-486
Login(u, name, pw) ==
    LET ok == /\ name # EmptyField /\ pw # EmptyField
              /\ name = UserName(u)
              /\ pw = Password(u)
    IN /\ loggedIn' = IF ok THEN loggedIn \cup {u} ELSE loggedIn
       /\ resp' = Some([kind |-> "login", user |-> u, username |-> name,
                        password |-> pw, success |-> ok])
       /\ UNCHANGED <<cacheVars, callVars, lastSet, ctorVars, questions, history,
                      snap, seen, invalidated, favorites, seqQid, sessions,
                      csvFile, qmCache, examId>>

\* logout, app.py:488-493: session.clear() drops user_id and current_exam_id
Logout(u) ==
    /\ loggedIn' = loggedIn \ {u}
    /\ examId' = [c \in (DOMAIN examId) \ {u} |-> examId[c]]
    /\ resp' = Some([kind |-> "logout", user |-> u])
    /\ UNCHANGED <<cacheVars, callVars, lastSet, ctorVars, questions, history,
                   snap, seen, invalidated, favorites, seqQid, sessions, csvFile,
                   qmCache>>

\* start_timed_mode, app.py:2038-2071
StartTimedMode(u) == StartSession(u, "timed", MaxExams)

\* start_exam with the bound of SpecExam
StartExamMode(u) == StartSession(u, "exam", MaxExams)

\* SELECT * FROM exam_sessions WHERE id=? AND user_id=?, app.py:2240
SessionOf(ss, id, u) ==
    IF id \in 1..Len(ss) /\ ss[id].user = u THEN Some(ss[id]) ELSE None

\* the session questions for which fetch_question finds a row, app.py:2261-2262
StillExisting(qids, qs) == SelectSeq(qids, LAMBDA q : GetQuestion(qs, q) # None)

\* the history rows of a submission; right holds the questions whose form
\* answer equals the stored answer, app.py:2264-2273
AnswerRows(qids, right) ==
    [i \in 1..Len(qids) |-> [qid |-> qids[i], correct |-> qids[i] \in right]]

\* correct_count / total * 100, in whole percent, app.py:2284
ScoreOf(correctCount, total) ==
    IF total > 0 THEN (correctCount * 100) \div total ELSE 0

\* a variant that leaves current_exam_id in the session
ClearExamId_Keep(ids, u) == ids

\* session.pop('current_exam_id', None), app.py:2291
ClearExamId(ids, u) == [c \in (DOMAIN ids) \ {u} |-> ids[c]]

\* the writes of a submission for session id: one history row per existing
\* question and UPDATE exam_sessions SET completed=1, score=?
SubmitWrites(u, id, right) ==
    LET exam == sessions[id]
        existing == StillExisting(exam.qids, questions)
        rows == AnswerRows(existing, right)
        correctCount == Cardinality({i \in 1..Len(rows) : rows[i].correct})
        score == ScoreOf(correctCount, Len(exam.qids))
    IN /\ history' = [history EXCEPT ![u] = @ \o rows]
       /\ sessions' = [sessions EXCEPT ![id].completed = TRUE, ![id].score = score]

\* submit_exam, app.py:2225-2300, and submit_timed_mode, app.py:2106-2163:
\* the two handlers differ in their response only
SubmitSession(u, route, right) ==
    IF u \notin DOMAIN examId
    THEN /\ resp' = Some([kind |-> "submit", user |-> u, route |-> route,
                          success |-> FALSE, exam |-> 0, rows |-> 0])
         /\ UNCHANGED <<cacheVars, callVars, lastSet, ctorVars, questions, history,
                        snap, seen, invalidated, dbVars>>
    ELSE IF SessionOf(sessions, examId[u], u) = None
    THEN /\ resp' = Some([kind |-> "submit", user |-> u, route |-> route,
                          success |-> FALSE, exam |-> examId[u], rows |-> 0])
         /\ UNCHANGED <<cacheVars, callVars, lastSet, ctorVars, questions, history,
                        snap, seen, invalidated, dbVars>>
    ELSE /\ SubmitWrites(u, examId[u], right)
         /\ examId' = ClearExamId(examId, u)
         /\ resp' = Some([kind |-> "submit", user |-> u, route |-> route,
                          success |-> TRUE, exam |-> examId[u],
                          rows |-> Len(StillExisting(sessions[examId[u]].qids,
                                                     questions))])
         /\ UNCHANGED <<cacheVars, callVars, lastSet, ctorVars, questions, snap,
                        seen, invalidated, favorites, seqQid, csvFile, qmCache,
                        loggedIn>>

SubmitExam(u, right) == SubmitSession(u, "exam", right)
SubmitTimedMode(u, right) == SubmitSession(u, "timed", right)

InitExam ==
    /\ ServiceInit
    /\ csvFile = NoFile
    /\ qmCache = Empty
    /\ loggedIn = {}
    /\ examId = Empty
    /\ questions = BankOld
    /\ history = [u \in Users |-> <<>>]

NextExam ==
    \/ \E u \in Users : Login(u, UserName(u), Password(u))
    \/ \E u \in Users : Logout(u)
    \/ \E u \in Users : \E b \in Banks :
          LoginRequired(u, "reload_questions", ReloadBank(u, b))
    \/ \E u \in Users : LoginRequired(u, "start_exam", StartExamMode(u))
    \/ \E u \in Users : LoginRequired(u, "start_timed_mode", StartTimedMode(u))
    \/ \E u \in Users : \E right \in SUBSET QuestionIds(questions) :
          LoginRequired(u, "submit_exam", SubmitExam(u, right))
    \/ \E u \in Users : \E right \in SUBSET QuestionIds(questions) :
          LoginRequired(u, "submit_timed_mode", SubmitTimedMode(u, right))

SpecExam == InitExam /\ [][NextExam]_vars

(***************************************************************************)
(* The routes that write the tables, behind login_required (SpecAuth).     *)
(***************************************************************************)
InitAuth == InitExam

NextAuth ==
    \/ \E u \in Users : \E name \in LoginNames(u) : \E pw \in LoginPasswords(u) :
          Login(u, name, pw)
    \/ \E u \in Users : Logout(u)
    \/ \E u \in Users : \E q \in QuestionIds(questions) : \E c \in BOOLEAN :
          LoginRequired(u, "show_question", RecordAnswer(u, q, c, MaxAuthHist))
    \/ \E u \in Users : LoginRequired(u, "reset_history", ResetHistory(u))
    \/ \E u \in Users : \E q \in QuestionIds(questions) :
          LoginRequired(u, "favorite_question", FavoriteQuestion(u, q))
    \/ \E u \in Users : \E b \in Banks :
          LoginRequired(u, "reload_questions", ReloadBank(u, b))
    \/ \E u \in Users : LoginRequired(u, "start_exam", StartExam(u))
    \/ \E u \in Users : \E right \in SUBSET QuestionIds(questions) :
          LoginRequired(u, "submit_exam", SubmitExam(u, right))

SpecAuth == InitAuth /\ [][NextAuth]_vars

(***************************************************************************)
(* Submit requests served by concurrent threads (SpecRace).  app.run       *)
(* serves each request on its own thread; a request carries the cookie     *)
(* the client held when it was sent, and its response replaces the         *)
(* client's cookie.  The INSERTs and the UPDATE of one submit are one      *)
(* SQLite transaction: the first INSERT takes the write lock and the       *)
(* commit releases it, so the writes of two submits do not interleave.     *)
(*   pc[t]   "idle" | "submit_write" | "submit_respond"                    *)
(*   op[t]   the route, key[t] the current_exam_id read from the session,  *)
(*   val[t]  the user_id read from the session                             *)
(***************************************************************************)
\* a variant that finds no exam once the session is completed
SubmitSelect_Uncompleted(ss, id, u) ==
    IF id \in 1..Len(ss) /\ ss[id].user = u /\ ~ss[id].completed
    THEN Some(ss[id]) ELSE None

\* the SELECT of a submit request, app.py:2238-2241: completed is not read
SubmitSelect(ss, id, u) == SessionOf(ss, id, u)

\* the request reaches thread t: login_required, then the session's
\* current_exam_id, app.py:2229-2236
SubmitArrive(t, u, route) ==
    /\ pc[t] = "idle"
    /\ IF u \notin loggedIn
       THEN /\ resp' = Some([kind |-> "redirect_login", user |-> u, route |-> route])
            /\ UNCHANGED <<pc, op, key, val>>
       ELSE IF u \notin DOMAIN examId
       THEN /\ resp' = Some([kind |-> "submit", user |-> u, route |-> route,
                             success |-> FALSE, exam |-> 0, rows |-> 0])
            /\ UNCHANGED <<pc, op, key, val>>
       ELSE /\ pc' = [pc EXCEPT ![t] = "submit_write"]
            /\ op' = [op EXCEPT ![t] = route]
            /\ key' = [key EXCEPT ![t] = examId[u]]
            /\ val' = [val EXCEPT ![t] = u]
            /\ resp' = None
    /\ UNCHANGED <<cacheVars, ret, evicting, lastSet, ctorVars, questions, history,
                   snap, seen, invalidated, dbVars>>

\* the SELECT, the history rows and the UPDATE, committed together,
\* app.py:2238-2287
SubmitCommit(t, right) ==
    /\ pc[t] = "submit_write"
    /\ IF SubmitSelect(sessions, key[t], val[t]) = None
       THEN /\ pc' = [pc EXCEPT ![t] = "idle"]
            /\ resp' = Some([kind |-> "submit", user |-> val[t], route |-> op[t],
                             success |-> FALSE, exam |-> key[t], rows |-> 0])
            /\ UNCHANGED <<history, sessions>>
       ELSE /\ SubmitWrites(val[t], key[t], right)
            /\ pc' = [pc EXCEPT ![t] = "submit_respond"]
            /\ resp' = None
    /\ UNCHANGED <<cacheVars, op, key, val, ret, evicting, lastSet, ctorVars,
                   questions, snap, seen, invalidated, favorites, seqQid, csvFile,
                   qmCache, loggedIn, examId>>

\* session.pop and the response, app.py:2290-2300: the cookie of the
\* response holds the request's session without current_exam_id
SubmitRespond(t) ==
    /\ pc[t] = "submit_respond"
    /\ pc' = [pc EXCEPT ![t] = "idle"]
    /\ examId' = ClearExamId(examId, val[t])
    /\ resp' = Some([kind |-> "submit", user |-> val[t], route |-> op[t],
                     success |-> TRUE, exam |-> key[t],
                     rows |-> Len(StillExisting(sessions[key[t]].qids, questions))])
    /\ UNCHANGED <<cacheVars, op, key, val, ret, evicting, lastSet, ctorVars,
                   questions, history, snap, seen, invalidated, favorites, seqQid,
                   sessions, csvFile, qmCache, loggedIn>>

InitRace == InitExam

NextRace ==
    \/ \E u \in Users : Login(u, UserName(u), Password(u))
    \/ \E u \in Users : Logout(u)
    \/ \E u \in Users : LoginRequired(u, "start_exam", StartExam(u))
    \/ \E u \in Users : \E b \in Banks :
          LoginRequired(u, "reload_questions", ReloadBank(u, b))
    \/ \E t \in Threads : \E u \in Users : \E route \in {"exam", "timed"} :
          SubmitArrive(t, u, route)
    \/ \E t \in Threads : \E right \in SUBSET QuestionIds(questions) :
          SubmitCommit(t, right)
    \/ \E t \in Threads : SubmitRespond(t)

SpecRace == InitRace /\ [][NextRace]_vars

(***************************************************************************)
(* Sequential mode while reload_questions replaces the bank                *)
(* (SpecSeqReload).                                                        *)
(***************************************************************************)
\* the bank after a reload from a file without question 3
SeqBankReduced == SubSeq(SeqBank, 1, 2)
SeqBanks == {SeqBank, SeqBankReduced, <<>>}

\* show_sequential_question for an id without a row, app.py:1923-1927:
\* "题目不存在" and a redirect to the index; the position is not written
ViewSequentialMissing(u, q) ==
    /\ q \notin QuestionIds(questions)
    /\ resp' = Some([kind |-> "seq_missing", user |-> u, qid |-> q, next |-> q,
                     run |-> "none"])
    /\ UNCHANGED <<cacheVars, callVars, lastSet, ctorVars, questions, history,
                   snap, seen, invalidated, dbVars>>

InitSeqReload == InitSeq

NextSeqReload ==
    \/ \E u \in Users : SequentialStart(u)
    \/ \E u \in Users : \E q \in QuestionIds(SeqBank) : ViewSequential(u, q)
    \/ \E u \in Users : \E q \in QuestionIds(SeqBank) : ViewSequentialMissing(u, q)
    \/ \E u \in Users : \E q \in QuestionIds(SeqBank) : \E c \in BOOLEAN :
          AnswerSequential(u, q, c)
    \/ \E u \in Users : \E b \in SeqBanks : ReloadBank(u, b)

SpecSeqReload == InitSeqReload /\ [][NextSeqReload]_vars

----------------------------------------------------------------------------
(***************************************************************************)
(* Properties of the CacheManager                                          *)
(***************************************************************************)

\* C1: no call blocks forever: a thread that is inside a call, the holder of
\* the mutex included, can always take its next step or waits for a mutex
\* whose holder can.  (Stated as the claim; the code violates it.)
C1_NoCallBlocksForever ==
    \A t \in Threads :
        pc[t] # "idle" =>
            \/ ENABLED ThreadStep(t)
            \/ lockOwner \notin {NoThread, t} /\ ENABLED ThreadStep(lockOwner)

\* C2: get never returns a value stored TTL or more ago; a get on an entry
\* whose age has reached the TTL returns None and removes the entry, and a
\* get on an absent key returns None; the two dicts hold the same keys and
\* every timestamp is the time of the key's last store.
C2_ExpiredNeverReturned ==
    [][/\ DOMAIN cache = DOMAIN cacheTs
       /\ \A k \in DOMAIN cacheTs : cacheTs[k] = lastSet[k]
       /\ \A t \in Threads :
            (pc[t] = "in" /\ op[t] = "get" /\ pc'[t] = "unlock") =>
               LET k == key[t]
               IN /\ ret'[t] # None =>
                        /\ lastSet[k] >= 0
                        /\ now - lastSet[k] < TTL
                        /\ ret'[t] = Some(cache[k])
                  /\ (k \in DOMAIN cache /\ now - lastSet[k] >= TTL) =>
                        /\ ret'[t] = None
                        /\ k \notin DOMAIN cache'
                        /\ k \notin DOMAIN cacheTs'
                  /\ k \notin DOMAIN cache =>
                        ret'[t] = None /\ k \notin DOMAIN cache'
      ]_vars

\* C2 witness: a get has just returned None for a key that was stored TTL
\* or more ago, and the entry is gone.
C2_Witness ==
    \E t \in Threads :
        /\ pc[t] = "unlock" /\ op[t] = "get" /\ ret[t] = None
        /\ lastSet[key[t]] >= 0
        /\ now - lastSet[key[t]] >= TTL
        /\ key[t] \notin DOMAIN cache

\* C3: the cache never holds more than max_size entries, and get_stats never
\* reports a larger size.
C3_AtMostMaxSize ==
    /\ Cardinality(DOMAIN cache) <= MaxSize
    /\ \A t \in Threads :
         (pc[t] = "unlock" /\ op[t] = "get_stats") => ret[t][1] <= MaxSize

\* C3 witness: the cache is full and a set for a further key has been called.
C3_Witness ==
    /\ Cardinality(DOMAIN cache) = MaxSize
    /\ \E t \in Threads :
         /\ op[t] = "set" /\ pc[t] # "idle"
         /\ key[t] \notin DOMAIN cache

\* C4: a set(key, value) for an absent key on a full cache leads to a state
\* in which the call returns with the key stored with that value and the
\* cache still holding max_size entries (one entry was removed).  (Stated as
\* the claim; the code violates it.)
C4_SetOnFullCacheStores ==
    \A t \in Threads : \A k \in RawKeys : \A v \in Vals :
        (/\ pc[t] = "in" /\ op[t] = "set" /\ key[t] = k /\ val[t] = v
         /\ k \notin DOMAIN cache
         /\ Cardinality(DOMAIN cache) = MaxSize)
        ~> (/\ pc[t] = "unlock"
            /\ k \in DOMAIN cache
            /\ cache[k] = v
            /\ Cardinality(DOMAIN cache) = MaxSize)

\* C5: a step of a construction never discards an entry of the cache's map
\* or of its timestamps.  (Stated as the claim; the code violates it.)
C5_ConstructionKeepsEntries ==
    [][\A t \in Threads :
         (pc[t] \in CtorPcs /\ pc'[t] # pc[t]) =>
            /\ DOMAIN cache \subseteq DOMAIN cache'
            /\ DOMAIN cacheTs \subseteq DOMAIN cacheTs'
      ]_vars


----------------------------------------------------------------------------
(***************************************************************************)
(* Properties of the LearningSystem                                        *)
(***************************************************************************)
ProgressKinds == {"progress", "statistics"}

\* the figures of a progress result are those of the history rows
FiguresOf(value, rows) ==
    LET correct == Cardinality({i \in 1..Len(rows) : rows[i].correct})
    IN /\ value.answered = Cardinality({rows[i].qid : i \in 1..Len(rows)})
       /\ value.correct = correct
       /\ value.wrong = Cardinality({i \in 1..Len(rows) : ~rows[i].correct})
       /\ value.accuracy.num * Len(rows) = 100 * correct * value.accuracy.den

ProgressResponse == resp # None /\ resp[1].kind = "progress"

\* C6 as claimed: every get_user_progress(u) response carries the figures of
\* u's history rows as they are at that call.  (Stated as the claim; a
\* cached result is served while it is younger than the TTL.)
C6_RecomputedPerRequest ==
    ProgressResponse => FiguresOf(resp[1].value, resp[1].current)

\* C6, amended: a get_user_progress(u) response carries the figures of u's
\* history rows as they were when its result was computed; that is at the
\* call itself when the cache holds no live entry progress_u, and less than
\* the TTL before the call otherwise.
C6_FiguresOfHistoryWhenComputed ==
    ProgressResponse =>
        /\ FiguresOf(resp[1].value, resp[1].src.rows)
        /\ resp[1].src.user = resp[1].user
        /\ IF resp[1].cached
           THEN resp[1].age >= 0 /\ resp[1].age < TTL
           ELSE resp[1].src.rows = resp[1].current

\* an answer recorded after the result was computed is missing from a
\* response served from the cache
C6_Witness ==
    /\ ProgressResponse
    /\ resp[1].cached
    /\ Len(resp[1].current) > Len(resp[1].src.rows)
    /\ ~FiguresOf(resp[1].value, resp[1].current)

\* a response computed at the call, over a history with a repeated question
C6_WitnessComputed ==
    /\ ProgressResponse
    /\ ~resp[1].cached
    /\ Len(resp[1].current) = MaxHist

\* C7 as claimed: after clear_user_cache(u), or after a recommendations
\* request for u with the refresh parameter, the memoized progress and
\* statistics results of u are gone, so the next call recomputes them.
\* (Stated as the claim; the refresh parameter leaves both entries cached.)
C7_InvalidationDropsResults ==
    \A u \in Users : \A kind \in ProgressKinds :
        invalidated[<<kind, u>>] \in {"clear", "clear_none", "refresh"}
            => <<kind, u>> \notin DOMAIN cache

\* C7, amended: clear_user_cache(u) removes the entries progress_u and
\* statistics_u, each stays absent until a get_user_progress /
\* get_user_statistics call stores a result again, and a call that looks the
\* key up before that analyses the history as it is at that call; a
\* recommendations request, with or without the refresh parameter, leaves
\* the cache as it was.
C7_ClearDropsRefreshKeeps ==
    /\ [](\A u \in Users : \A kind \in ProgressKinds :
            invalidated[<<kind, u>>] \in {"clear", "clear_none"}
                => /\ <<kind, u>> \notin DOMAIN cache
                   /\ <<kind, u>> \notin DOMAIN cacheTs)
    /\ [][/\ \A t \in Threads : \A u \in Users : \A kind \in ProgressKinds :
                (/\ invalidated[<<kind, u>>] \in {"clear", "clear_none"}
                 /\ invalidated'[<<kind, u>>] = "no"
                 /\ pc[t] = "idle" /\ pc'[t] = "ls_set")
                => /\ key'[t] = <<kind, u>>
                   /\ seen'[t].rows = history[u]
                   /\ kind = "progress" => FiguresOf(val'[t], history[u])
          /\ (resp' # None /\ resp'[1].kind = "recommendations")
                => cache' = cache /\ cacheTs' = cacheTs
         ]_vars

\* clear_user_cache(u) has removed both memoized results of u
C7_Witness ==
    \E u \in Users :
        /\ invalidated[<<"progress", u>>] = "clear"
        /\ invalidated[<<"statistics", u>>] = "clear"
        /\ history[u] # <<>>

\* a recommendations request with the refresh parameter has been answered
\* while both results of the user stay memoized
C7_WitnessRefresh ==
    /\ resp # None
    /\ resp[1].kind = "recommendations"
    /\ resp[1].refresh
    /\ invalidated[<<"progress", resp[1].user>>] = "refresh"
    /\ invalidated[<<"statistics", resp[1].user>>] = "refresh"


----------------------------------------------------------------------------
(***************************************************************************)
(* Properties of the StatisticsAnalyzer and of the RecommendationEngine,   *)
(* stated over the history rows and the question bank themselves.          *)
(***************************************************************************)
\* the rows of a history that answer a question carrying a label
RowsWith(rows, field, label) ==
    {i \in 1..Len(rows) :
        \E n \in 1..Len(questions) :
            questions[n].id = rows[i].qid /\ questions[n][field] = label}

Attempts(rows, field, label) == Cardinality(RowsWith(rows, field, label))

Corrects(rows, field, label) ==
    Cardinality({i \in RowsWith(rows, field, label) : rows[i].correct})

\* the accuracy over the rows with a label is below a percentage
AccuracyBelow(rows, field, label, percent) ==
    /\ Attempts(rows, field, label) > 0
    /\ 100 * Corrects(rows, field, label) < percent * Attempts(rows, field, label)

\* the accuracy of category c is strictly lower than that of category d
StrictlyLower(rows, c, d) ==
    Corrects(rows, "category", c) * Attempts(rows, "category", d)
        < Corrects(rows, "category", d) * Attempts(rows, "category", c)

Qualifying(rows) ==
    {c \in {questions[n].category : n \in 1..Len(questions)} :
        /\ Attempts(rows, "category", c) >= 3
        /\ AccuracyBelow(rows, "category", c, 60)}

AnalysisResponse == resp # None /\ resp[1].kind = "analysis"

\* C8: the weak areas StatisticsAnalyzer.analyze returns are distinct
\* categories with accuracy below 60% over at least 3 attempts, each with its
\* accuracy, in ascending order of accuracy; they are all such categories
\* when there are at most 5 and 5 of them otherwise, and no omitted such
\* category has a strictly lower accuracy than a returned one.
C8_WeakAreas ==
    AnalysisResponse =>
        LET rows == history[resp[1].user]
            weak == resp[1].value.weak_areas
            returned == {weak[i].category : i \in 1..Len(weak)}
            cats == {questions[n].category : n \in 1..Len(questions)}
            att == [c \in cats |-> Attempts(rows, "category", c)]
            cor == [c \in cats |-> Corrects(rows, "category", c)]
            qualifying == {c \in cats : att[c] >= 3 /\ 100 * cor[c] < 60 * att[c]}
            lower(c, d) == cor[c] * att[d] < cor[d] * att[c]
        IN /\ returned \subseteq qualifying
           /\ \A i \in 1..Len(weak) :
                 weak[i].accuracy.num * att[weak[i].category]
                    = 100 * cor[weak[i].category] * weak[i].accuracy.den
           /\ \A i, j \in 1..Len(weak) :
                 i < j => /\ weak[i].category # weak[j].category
                          /\ ~lower(weak[j].category, weak[i].category)
           /\ Len(weak) = IF Cardinality(qualifying) > 5 THEN 5
                          ELSE Cardinality(qualifying)
           /\ \A c \in qualifying \ returned : \A d \in returned : ~lower(c, d)

\* six categories qualify and five are returned, next to a category at
\* exactly 60% and a category with two attempts
C8_Witness ==
    /\ AnalysisResponse
    /\ Len(resp[1].value.weak_areas) = 5
    /\ Cardinality(Qualifying(history[resp[1].user])) > 5
    /\ \E c, d \in Qualifying(history[resp[1].user]) :
          StrictlyLower(history[resp[1].user], c, d)

\* categories at exactly 60% and with two wrong attempts are left out
C8_WitnessLeftOut ==
    /\ AnalysisResponse
    /\ resp[1].value.weak_areas # <<>>
    /\ \E n \in 1..Len(questions) :
          /\ Attempts(history[resp[1].user], "category", questions[n].category) = 5
          /\ Corrects(history[resp[1].user], "category", questions[n].category) = 3
    /\ \E n \in 1..Len(questions) :
          /\ Attempts(history[resp[1].user], "category", questions[n].category) = 2
          /\ Corrects(history[resp[1].user], "category", questions[n].category) = 0

RecommendationResponse == resp # None /\ resp[1].kind = "recommendations"

QuestionOf(qid) == questions[CHOOSE n \in 1..Len(questions) : questions[n].id = qid]

AnsweredIds(rows) == {rows[i].qid : i \in 1..Len(rows)}

\* the weak areas of a history: the categories C8 describes
WeakCategories(rows) ==
    LET weak == StatisticsAnalyze(GetUserAnswers(rows), questions).weak_areas
    IN {weak[i].category : i \in 1..Len(weak)}

\* 50, plus 30 for a weak category, 20 for a difficulty below 60%, 15 for a
\* type below 70%
ExpectedBase(rows, q) ==
    50 + (IF q.category \in WeakCategories(rows) THEN 30 ELSE 0)
       + (IF AccuracyBelow(rows, "difficulty", q.difficulty, 60) THEN 20 ELSE 0)
       + (IF AccuracyBelow(rows, "qtype", q.qtype, 70) THEN 15 ELSE 0)

ClampTo(x, lo, hi) == IF x < lo THEN lo ELSE IF x > hi THEN hi ELSE x

\* C9: recommend_questions returns recommendations for unanswered questions
\* only, as many as asked for or all of them, and the score of each is
\* clamp(50 + 30*[weak category] + 20*[difficulty accuracy < 60%]
\* + 15*[type accuracy < 70%] + jitter, 0, 100) for a jitter within [-5, 5],
\* hence within [0, 100].
C9_ScoreFormula ==
    RecommendationResponse =>
        LET rows == history[resp[1].user]
            recs == resp[1].value
            open == QuestionIds(questions) \ AnsweredIds(rows)
        IN /\ \A i \in 1..Len(recs) :
                 /\ recs[i].question_id \in open
                 /\ \E j \in -5..5 :
                       recs[i].score =
                          ClampTo(ExpectedBase(rows, QuestionOf(recs[i].question_id)) + j,
                                  0, 100)
                 /\ recs[i].score >= 0
                 /\ recs[i].score <= 100
           /\ \A i, j \in 1..Len(recs) :
                 i # j => recs[i].question_id # recs[j].question_id
           /\ resp[1].count >= 0 =>
                 Len(recs) = IF resp[1].count < Cardinality(open)
                             THEN resp[1].count ELSE Cardinality(open)

\* a question with all three bonuses is scored 100, the ceiling, next to a
\* question with no bonus
C9_Witness ==
    /\ RecommendationResponse
    /\ \E i \in 1..Len(resp[1].value) :
          /\ resp[1].value[i].score = 100
          /\ ExpectedBase(history[resp[1].user],
                          QuestionOf(resp[1].value[i].question_id)) = 115
    /\ \E i \in 1..Len(resp[1].value) :
          /\ resp[1].value[i].score < 50
          /\ ExpectedBase(history[resp[1].user],
                          QuestionOf(resp[1].value[i].question_id)) = 50

\* C10: every recommendation returned by recommend_questions has priority 1
\* if and only if its score is at least 70, priority 2 if and only if its
\* score is at least 50 and below 70, and priority 3 if and only if its
\* score is below 50.
C10_PriorityMatchesScore ==
    RecommendationResponse =>
        \A i \in 1..Len(resp[1].value) :
            LET r == resp[1].value[i]
            IN /\ r.priority \in {1, 2, 3}
               /\ r.priority = 1 <=> r.score >= 70
               /\ r.priority = 2 <=> (r.score >= 50 /\ r.score < 70)
               /\ r.priority = 3 <=> r.score < 50

\* one response with a score of exactly 70, a score of exactly 50 and a
\* score below 50
C10_Witness ==
    /\ RecommendationResponse
    /\ \E i \in 1..Len(resp[1].value) :
          resp[1].value[i].score = 70 /\ resp[1].value[i].priority = 1
    /\ \E i \in 1..Len(resp[1].value) :
          resp[1].value[i].score = 50 /\ resp[1].value[i].priority = 2
    /\ \E i \in 1..Len(resp[1].value) :
          resp[1].value[i].score < 50 /\ resp[1].value[i].priority = 3


\* a recommendation ranks strictly before another: lower priority number,
\* or the same priority and a higher score
RanksBefore(a, b) ==
    \/ a.priority < b.priority
    \/ a.priority = b.priority /\ a.score > b.score

\* the recommendations of a response are the top ones of its candidates
TopOfCandidates(recs, cands) ==
    LET returned == {recs[i].question_id : i \in 1..Len(recs)}
    IN /\ \A i \in 1..Len(recs) : \E n \in 1..Len(cands) : cands[n] = recs[i]
       /\ \A i, j \in 1..Len(recs) : i < j => ~RanksBefore(recs[j], recs[i])
       /\ \A n \in 1..Len(cands) :
             cands[n].question_id \notin returned =>
                \A i \in 1..Len(recs) : ~RanksBefore(cands[n], recs[i])

\* C11 as claimed: for every requested count N, recommend_questions returns
\* at most N recommendations, exactly min(N, number of unanswered
\* questions), ordered by priority ascending and then score descending, and
\* no candidate left out ranks strictly before a returned one.  (Stated as
\* the claim; the code returns all candidates but the last |N| for N < 0.)
C11_ReturnsTopN ==
    RecommendationResponse =>
        /\ Len(resp[1].value) <= resp[1].count
        /\ Len(resp[1].value) = IF resp[1].count < Len(resp[1].candidates)
                                THEN resp[1].count ELSE Len(resp[1].candidates)
        /\ TopOfCandidates(resp[1].value, resp[1].candidates)

\* the same for the counts that are not negative
C11_ReturnsTopNOfNonNegative ==
    (RecommendationResponse /\ resp[1].count >= 0) =>
        /\ Len(resp[1].value) <= resp[1].count
        /\ Len(resp[1].value) = IF resp[1].count < Len(resp[1].candidates)
                                THEN resp[1].count ELSE Len(resp[1].candidates)
        /\ TopOfCandidates(resp[1].value, resp[1].candidates)

\* a request with a negative count is answered with recommendations
C11_NegativeCountAnswered ==
    /\ RecommendationResponse
    /\ resp[1].count < 0
    /\ Len(resp[1].value) > 0


\* C12: recommend_questions never returns a question for which the user has
\* a history row, correct or wrong, returns each question id at most once,
\* and returns only ids of the questions table.
C12_OnlyUnansweredQuestions ==
    RecommendationResponse =>
        LET recs == resp[1].value
            rows == history[resp[1].user]
        IN /\ \A i \in 1..Len(recs) :
                 /\ \A n \in 1..Len(rows) : rows[n].qid # recs[i].question_id
                 /\ \E n \in 1..Len(questions) : questions[n].id = recs[i].question_id
           /\ \A i, j \in 1..Len(recs) :
                 i # j => recs[i].question_id # recs[j].question_id

\* recommendations are returned to a user who has answered one question
\* rightly and another wrongly
C12_Witness ==
    /\ RecommendationResponse
    /\ Len(resp[1].value) >= 2
    /\ \E n, k \in 1..Len(history[resp[1].user]) :
          /\ history[resp[1].user][n].correct
          /\ ~history[resp[1].user][k].correct
          /\ history[resp[1].user][n].qid # history[resp[1].user][k].qid


WrongResponse == resp # None /\ resp[1].kind = "wrong"

\* the rows of a history that are wrong answers to a question
ErrorsOn(rows, qid) == {n \in 1..Len(rows) : rows[n].qid = qid /\ ~rows[n].correct}

\* C13 as claimed: each recommendation of recommend_wrong_questions is for a
\* question with error_count >= 1 incorrect attempts, has score
\* min(100, error_count * 20 + days * 2) with days the whole days since the
\* most recent incorrect attempt on it, and priority 1 if error_count >= 2
\* and 2 otherwise.  (Stated as the claim; the code counts the days from the
\* earliest incorrect attempt.)
C13_ScoreFromLastError ==
    WrongResponse =>
        \A i \in 1..Len(resp[1].value) :
            LET r == resp[1].value[i]
                rows == history[resp[1].user]
                errs == ErrorsOn(rows, r.question_id)
                last == CHOOSE n \in errs : \A k \in errs : rows[k].at <= rows[n].at
                days == (resp[1].at - rows[last].at) \div 2
                sum == Cardinality(errs) * 20 + days * 2
            IN /\ errs # {}
               /\ r.score = IF sum > 100 THEN 100 ELSE sum
               /\ r.priority = IF Cardinality(errs) >= 2 THEN 1 ELSE 2

\* what the code computes: the days are those since the earliest incorrect
\* attempt
C13_ScoreFromFirstError ==
    WrongResponse =>
        \A i \in 1..Len(resp[1].value) :
            LET r == resp[1].value[i]
                rows == history[resp[1].user]
                errs == ErrorsOn(rows, r.question_id)
                first == CHOOSE n \in errs : \A k \in errs : rows[n].at <= rows[k].at
                days == (resp[1].at - rows[first].at) \div 2
                sum == Cardinality(errs) * 20 + days * 2
            IN /\ errs # {}
               /\ r.score = IF sum > 100 THEN 100 ELSE sum
               /\ r.priority = IF Cardinality(errs) >= 2 THEN 1 ELSE 2

\* a question answered wrongly twice, a day or more apart, is recommended
C13_TwoErrorsApart ==
    /\ WrongResponse
    /\ \E i \in 1..Len(resp[1].value) :
          \E n, k \in ErrorsOn(history[resp[1].user], resp[1].value[i].question_id) :
             history[resp[1].user][k].at - history[resp[1].user][n].at >= 2


----------------------------------------------------------------------------
(***************************************************************************)
(* Properties of the tables                                                *)
(***************************************************************************)
IsPrefix(s, t) == Len(s) <= Len(t) /\ \A i \in 1..Len(s) : t[i] = s[i]

\* C14 as claimed: no step modifies or deletes a history row, so a user's
\* rows always contain every row inserted so far.  (Stated as the claim;
\* reset_history deletes the rows of its user.)
C14_AppendOnly ==
    [][\A u \in Users : IsPrefix(history[u], history'[u])]_vars

\* C14, amended: no step modifies a history row, and a user's rows are
\* deleted only all together, by that user's reset_history request or by the
\* tool reset_and_reimport; every other step keeps every row inserted so far.
C14_RowsStayUntilReset ==
    [][\A u \in Users :
         \/ IsPrefix(history[u], history'[u])
         \/ /\ history'[u] = <<>>
            /\ resp' # None
            /\ \/ resp'[1].kind = "reset" /\ resp'[1].user = u
               \/ resp'[1].kind = "tool"
      ]_vars

\* reset_history has deleted the rows of a user who had answered twice
C14_Witness ==
    /\ resp # None
    /\ resp[1].kind = "reset"
    /\ resp[1].deleted = MaxHist
    /\ history[resp[1].user] = <<>>


\* C15: the favorites table holds at most one row for a (user, question)
\* pair, and a favorite request for a pair that has a row adds no row and
\* leaves the row's tag as it is.
C15_OneFavoritePerPair ==
    /\ [](\A i, j \in 1..Len(favorites) :
            (favorites[i].user = favorites[j].user
             /\ favorites[i].qid = favorites[j].qid) => i = j)
    /\ [][(/\ resp' # None
           /\ resp'[1].kind = "favorite"
           /\ \E i \in 1..Len(favorites) :
                 /\ favorites[i].user = resp'[1].user
                 /\ favorites[i].qid = resp'[1].qid)
          => favorites' = favorites
         ]_vars

\* a favorite request has been answered for a pair whose row carries a tag,
\* while the history holds two rows for a (user, question) pair
C15_Witness ==
    /\ resp # None
    /\ resp[1].kind = "favorite"
    /\ \E i \in 1..Len(favorites) :
          /\ favorites[i].user = resp[1].user
          /\ favorites[i].qid = resp[1].qid
          /\ favorites[i].tag # ""
    /\ \E u \in Users : \E n, k \in 1..Len(history[u]) :
          n # k /\ history[u][n].qid = history[u][k].qid


-----------------------------------------------------------------------------
\* Properties of sequential mode

\* the ids of a user's history rows, in insertion order
SeqIds(u) == [i \in 1..Len(history[u]) |-> history[u][i].qid]

\* the bank's ids in ascending order
RECURSIVE Ascending(_)
Ascending(S) == IF S = {} THEN <<>>
                ELSE <<SetMin(S)>> \o Ascending(S \ {SetMin(S)})

\* the id after x in the bank, going round from the largest to the smallest
CyclicNext(S, x) == IF {y \in S : y > x} # {} THEN SetMin({y \in S : y > x})
                    ELSE SetMin(S)

\* after an answer to q in sequential mode the stored position is the
\* smallest unanswered id above q, else the smallest unanswered id, else
\* the smallest id
PositionAfterAnswer ==
    [][\A u \in Users :
         (/\ resp' # None
          /\ resp'[1].kind = "seq_answer"
          /\ resp'[1].user = u
          /\ Len(history'[u]) = Len(history[u]) + 1)
         => LET q == resp'[1].qid
                un == QuestionIds(questions') \
                        {history'[u][i].qid : i \in 1..Len(history'[u])}
            IN /\ history'[u][Len(history'[u])].qid = q
               /\ \/ /\ \E x \in un : x > q
                     /\ seqQid'[u] \in un
                     /\ seqQid'[u] > q
                     /\ \A x \in un : x > q => seqQid'[u] <= x
                  \/ /\ ~ \E x \in un : x > q
                     /\ un # {}
                     /\ seqQid'[u] \in un
                     /\ \A x \in un : seqQid'[u] <= x
                  \/ /\ un = {}
                     /\ seqQid'[u] \in QuestionIds(questions')
                     /\ \A x \in QuestionIds(questions') : seqQid'[u] <= x
      ]_vars

\* the first rows of the history, up to the size of the bank, are the bank's
\* ids in ascending order
AnsweredAscending(u) ==
    LET n == Min(Len(history[u]), Len(questions))
    IN SubSeq(SeqIds(u), 1, n) = SubSeq(Ascending(QuestionIds(questions)), 1, n)

\* the first rows of the history, up to the size of the bank, go round the
\* bank in id order from the first one: no id twice, all after N submissions
AnsweredRound(u) ==
    LET n == Min(Len(history[u]), Len(questions))
        ids == SeqIds(u)
    IN /\ \A i \in 1..(n - 1) : ids[i + 1] = CyclicNext(QuestionIds(questions), ids[i])
       /\ \A i, j \in 1..n : ids[i] = ids[j] => i = j
       /\ Len(history[u]) >= Len(questions)
            => {ids[i] : i \in 1..n} = QuestionIds(questions)

\* C16, as stated: the position after an answer, and a user who follows the
\* stored position from an empty history answers the questions once each
\* in ascending id order.
C16_AscendingFromEmptyHistory ==
    /\ PositionAfterAnswer
    /\ [](\A u \in Users :
            (resp # None /\ resp[1].kind \in SeqKinds /\ resp[1].user = u
             /\ resp[1].run \in {"fresh", "saved"})
            => AnsweredAscending(u))

\* C16, amended: the position after an answer; a user who follows the stored
\* position from an empty history and no stored position answers the
\* questions once each in ascending id order; from an empty history and a
\* stored position they answer them once each going round from that
\* position.
C16_AscendingFromNoPosition ==
    /\ PositionAfterAnswer
    /\ [](\A u \in Users :
            (resp # None /\ resp[1].kind \in SeqKinds /\ resp[1].user = u)
            => /\ resp[1].run = "fresh" => AnsweredAscending(u)
               /\ resp[1].run = "saved" => AnsweredRound(u))

\* a user has completed the bank following a position stored by a view:
\* the first answer was not to the smallest id
C16_Witness ==
    /\ resp # None
    /\ resp[1].kind = "seq_answer"
    /\ resp[1].run = "saved"
    /\ Len(history[resp[1].user]) = Len(questions)
    /\ history[resp[1].user][1].qid # SetMin(QuestionIds(questions))
    /\ seqQid[resp[1].user] = SetMin(QuestionIds(questions))

\* a user has completed the bank from no stored position
C16_WitnessFresh ==
    /\ resp # None
    /\ resp[1].kind = "seq_answer"
    /\ resp[1].run = "fresh"
    /\ Len(history[resp[1].user]) = Len(questions)


-----------------------------------------------------------------------------
\* Properties of the CSV import

\* the last request was a reload that opened and decoded the file
Reloaded ==
    /\ resp # None
    /\ resp[1].kind = "reload"
    /\ csvFile.exists
    /\ csvFile.decodable

\* a row that has 题号 and 题干 and whose processing raises no error
ValidRow(row) ==
    /\ row.id # NoCell /\ row.id # ""
    /\ row.stem # NoCell /\ row.stem # ""
    /\ row.answer # NoCell

ValidLines == {i \in 1..Len(csvFile.rows) : ValidRow(csvFile.rows[i])}

\* the stored form of a row's 题号, 题干 and 答案
SameFields(q, row) ==
    /\ q.id = Strip(row.id)
    /\ q.stem = Strip(row.stem)
    /\ q.answer = Strip(row.answer)

StoredLine(i) ==
    \E k \in 1..Len(questions) : SameFields(questions[k], csvFile.rows[i])

\* the rows that are not valid are recorded, one error each with the row's
\* line number, and the import goes on to the end of the file
ErrorsRecorded ==
    /\ resp[1].success
    /\ Len(resp[1].errors) = Len(csvFile.rows) - Cardinality(ValidLines)
    /\ \A i \in 1..Len(csvFile.rows) :
          i \notin ValidLines
          <=> \E e \in 1..Len(resp[1].errors) : resp[1].errors[e].line = i + 1
    /\ \A e, f \in 1..Len(resp[1].errors) :
          e < f => resp[1].errors[e].line < resp[1].errors[f].line

C17_WitnessReplaced ==
    /\ Reloaded
    /\ ValidLines = {1, 2}
    /\ resp[1].count = 2
    /\ Len(questions) = 1
    /\ ~StoredLine(1)

\* the file rows a stored question may come from: for a reload the last
\* valid row with its id, for the reimport tool the row at its place
SourceLines(k) ==
    IF resp[1].kind = "reload"
    THEN {i \in ValidLines :
            /\ Strip(csvFile.rows[i].id) = questions[k].id
            /\ \A j \in ValidLines :
                  j > i => Strip(csvFile.rows[j].id) # questions[k].id}
    ELSE {k}

Imported ==
    /\ resp # None
    /\ resp[1].kind \in {"reload", "reimport"}
    /\ resp[1].success

Blank(cell) == cell = NoCell \/ Strip(cell) = ""

EmptyObject == <<>>

\* C18, as stated: for every imported row and every option letter whose
\* cell is empty or blank, the stored options hold an empty JSON object for
\* that letter.
C18_BlankLetterHoldsEmptyObject ==
    Imported =>
        \A k \in 1..Len(questions) : \A i \in SourceLines(k) : \A l \in Letters :
            Blank(csvFile.rows[i].opts[l])
            => /\ l \in DOMAIN questions[k].options
               /\ questions[k].options[l] = EmptyObject

\* C18, amended: the stored options have no entry for a letter whose cell
\* is empty or blank and the stripped cell for every other letter; with
\* every cell blank the stored options are the empty JSON object.
C18_BlankLetterOmitted ==
    Imported =>
        \A k \in 1..Len(questions) : \A i \in SourceLines(k) :
            /\ \A l \in Letters :
                  IF Blank(csvFile.rows[i].opts[l])
                  THEN l \notin DOMAIN questions[k].options
                  ELSE /\ l \in DOMAIN questions[k].options
                       /\ questions[k].options[l] = Strip(csvFile.rows[i].opts[l])
            /\ DOMAIN questions[k].options \subseteq Letters
            /\ (\A l \in Letters : Blank(csvFile.rows[i].opts[l]))
                  => questions[k].options = EmptyObject

\* an import has stored a question with a blank cell for A and a value for B
C18_Witness ==
    /\ Imported
    /\ \E k \in 1..Len(questions) : \E i \in SourceLines(k) :
          /\ csvFile.rows[i].opts["A"] = " "
          /\ csvFile.rows[i].opts["B"] = "a "
          /\ DOMAIN questions[k].options = {"B"}

\* an import has stored a question whose option cells are all blank
C18_WitnessAllBlank ==
    /\ Imported
    /\ resp[1].kind = "reimport"
    /\ \E k \in 1..Len(questions) : \E i \in SourceLines(k) :
          /\ \A l \in Letters : Blank(csvFile.rows[i].opts[l])
          /\ questions[k].options = EmptyObject


-----------------------------------------------------------------------------
\* Properties of code execution

\* the program text holds one of the forbidden keywords, in any case
Forbidden(code) ==
    \/ \E i \in 1..Len(code) : code[i] = "EVAL"
    \/ \E i \in 1..(Len(code) - 1) : code[i] = "import " /\ code[i + 1] = "os"

Failed(r) == ~r.correct /\ r.error # ""

\* C19: correct is true only after an exit with code 0 within the timeout
\* and a stripped output equal to the expected output; a forbidden keyword,
\* a timeout, a non-zero exit and a mismatch each give correct = false and
\* a non-empty error; a program with a forbidden keyword is not executed.
C19_CorrectOnlyOnCleanMatch ==
    (resp # None /\ resp[1].kind = "exec") =>
        LET r == resp[1]
            ran == r.executed /\ r.outcome.kind = "exit"
        IN /\ r.correct
                => /\ ran
                   /\ r.outcome.returncode = 0
                   /\ Strip(r.outcome.stdout) = Strip(r.expected.output)
                   /\ ~Forbidden(r.code)
           /\ Forbidden(r.code) => Failed(r) /\ ~r.executed
           /\ (r.executed /\ r.outcome.kind = "timeout") => Failed(r)
           /\ (ran /\ r.outcome.returncode # 0) => Failed(r)
           /\ (ran /\ Strip(r.outcome.stdout) # Strip(r.expected.output))
                => Failed(r)

\* a program has printed the expected output with different padding and
\* has been judged correct
C19_Witness ==
    /\ resp # None
    /\ resp[1].kind = "exec"
    /\ resp[1].correct
    /\ resp[1].outcome.stdout = "3 "
    /\ resp[1].expected.output = " 3"

\* a program has exited with a non-zero code and a blank stderr
C19_WitnessBlankStderr ==
    /\ resp # None
    /\ resp[1].kind = "exec"
    /\ resp[1].executed
    /\ resp[1].outcome.kind = "exit"
    /\ resp[1].outcome.returncode = 1
    /\ resp[1].outcome.stderr = " "
    /\ ~resp[1].correct


-----------------------------------------------------------------------------
\* Properties of reloading

\* C20: a reload_questions request and a run of tools/reimport_questions
\* leave the rows of users, history, favorites and exam_sessions as they
\* are, whether the reload succeeds or fails.
C20_ReloadKeepsUserData ==
    [][(resp' # None /\ resp'[1].kind \in {"reload", "reimport"})
       => /\ history' = history
          /\ favorites' = favorites
          /\ sessions' = sessions
          /\ seqQid' = seqQid
      ]_vars

\* a reload has failed and emptied the questions table while the history,
\* the favorites and the exam sessions hold rows
C20_Witness ==
    /\ resp # None
    /\ resp[1].kind = "reload"
    /\ ~resp[1].success
    /\ questions = <<>>
    /\ \E u \in Users : history[u] # <<>>
    /\ favorites # <<>>
    /\ sessions # <<>>

\* the reimport tool has replaced the questions while history and exam
\* sessions hold rows
C20_WitnessReimport ==
    /\ resp # None
    /\ resp[1].kind = "reimport"
    /\ resp[1].success
    /\ questions # DbBank
    /\ \E u \in Users : history[u] # <<>>
    /\ sessions # <<>>


-----------------------------------------------------------------------------
\* Properties of the statistics of an empty history

\* C21: for a user with no history rows, analyze returns overall accuracy 0,
\* empty difficulty, category and type statistics and no weak area.
C21_EmptyHistoryStatistics ==
    (resp # None /\ resp[1].kind = "analysis" /\ history[resp[1].user] = <<>>)
    => /\ resp[1].value.overall_accuracy.num = 0
       /\ resp[1].value.overall_accuracy.den > 0
       /\ resp[1].value.difficulty_stats = <<>>
       /\ resp[1].value.category_stats = <<>>
       /\ resp[1].value.type_stats = <<>>
       /\ resp[1].value.weak_areas = <<>>

\* analyze has answered for a user without history rows
C21_Witness ==
    /\ resp # None
    /\ resp[1].kind = "analysis"
    /\ history[resp[1].user] = <<>>
    /\ questions # <<>>


-----------------------------------------------------------------------------
\* Properties of the question bank under replacement

LabelValues == {"easy", "hard", "single", "multi", "A", "B"}

\* the rows of a history whose question, looked up in qs, has the label l
RowsLabelled(rows, qs, label, l) ==
    {i \in 1..Len(rows) :
        /\ GetQuestion(qs, rows[i].qid) # None
        /\ GetQuestion(qs, rows[i].qid)[1][label] = l}

\* a statistics dict counts, for every label, the rows of the history whose
\* question in qs has it, and has no bucket without a row
BucketsCount(d, rows, qs, label) ==
    /\ \A n \in 1..Len(d) :
          /\ d[n].key # ""
          /\ d[n].total >= 1
          /\ 0 <= d[n].correct
          /\ d[n].correct <= d[n].total
          /\ \A k \in 1..Len(d) : d[k].key = d[n].key => k = n
    /\ \A l \in LabelValues :
          LET counted == RowsLabelled(rows, qs, label, l)
          IN IF counted = {} THEN ~HasKey(d, l)
             ELSE /\ HasKey(d, l)
                  /\ Entry(d, l).total = Cardinality(counted)
                  /\ Entry(d, l).correct =
                        Cardinality({i \in counted : rows[i].correct})

OverallIsCorrectShare(v, rows) ==
    LET correct == Cardinality({i \in 1..Len(rows) : rows[i].correct})
    IN IF rows = <<>> THEN v.overall_accuracy.num = 0
       ELSE v.overall_accuracy.num * Len(rows)
              = correct * 100 * v.overall_accuracy.den

ManagerAnalysis == resp # None /\ resp[1].kind = "manager_analysis"

\* C24, as stated: every bucket of an analysis has total >= 1 and
\* 0 <= correct <= total, each history row whose question is in the
\* questions table is counted once in the bucket of each of its non-empty
\* labels, and overall accuracy is the share of correct rows.
C24_BucketsOfCurrentLabels ==
    ManagerAnalysis =>
        LET rows == history[resp[1].user]
            v == resp[1].value
        IN /\ BucketsCount(v.difficulty_stats, rows, questions, "difficulty")
           /\ BucketsCount(v.category_stats, rows, questions, "category")
           /\ BucketsCount(v.type_stats, rows, questions, "qtype")
           /\ OverallIsCorrectShare(v, rows)

\* the same with the labels that get_question returns
C24_BucketsOfReturnedLabels ==
    ManagerAnalysis =>
        LET rows == history[resp[1].user]
            v == resp[1].value
            qs == QmView(qmCache, questions, {rows[i].qid : i \in 1..Len(rows)})
        IN /\ BucketsCount(v.difficulty_stats, rows, qs, "difficulty")
           /\ BucketsCount(v.category_stats, rows, qs, "category")
           /\ BucketsCount(v.type_stats, rows, qs, "qtype")
           /\ OverallIsCorrectShare(v, rows)

\* an analysis has counted a row under a label its question no longer has
C24_StaleBucket ==
    /\ ManagerAnalysis
    /\ questions = BankNew
    /\ HasKey(resp[1].value.difficulty_stats, "easy")

\* C25, as stated: get_question(id) returns the question as the questions
\* table holds it, or None when the table holds none.
C25_LookupReturnsStoredQuestion ==
    (resp # None /\ resp[1].kind = "question")
    => resp[1].value = GetQuestion(questions, resp[1].qid)

\* what a lookup returns: the cached question if there is one, else the row
C25_LookupReturnsCachedQuestion ==
    (resp # None /\ resp[1].kind = "question")
    => /\ resp[1].value # None
          => /\ resp[1].qid \in DOMAIN qmCache
             /\ qmCache[resp[1].qid] = resp[1].value[1]
       /\ resp[1].value = None => GetQuestion(questions, resp[1].qid) = None

\* a lookup has returned a question that the table no longer holds
C25_StaleLookup ==
    /\ resp # None
    /\ resp[1].kind = "question"
    /\ resp[1].value # None
    /\ GetQuestion(questions, resp[1].qid) = None

\* C26, as stated: in every progress result answered <= total,
\* remaining = total - answered >= 0 and 0 <= completion rate <= 100.
C26_ProgressWithinBank ==
    (resp # None /\ resp[1].kind = "tracker")
    => LET v == resp[1].value
       IN /\ v.answered <= v.total
          /\ v.remaining = v.total - v.answered
          /\ v.remaining >= 0
          /\ v.completion_rate.num >= 0
          /\ v.completion_rate.num <= 100 * v.completion_rate.den

\* the same while every answered question is in the bank
C26_ProgressWithinBankIfNoneRemoved ==
    (/\ resp # None
     /\ resp[1].kind = "tracker"
     /\ \A i \in 1..Len(history[resp[1].user]) :
           history[resp[1].user][i].qid \in QuestionIds(questions))
    => LET v == resp[1].value
       IN /\ v.answered <= v.total
          /\ v.remaining = v.total - v.answered
          /\ v.remaining >= 0
          /\ v.completion_rate.num >= 0
          /\ v.completion_rate.num <= 100 * v.completion_rate.den

\* a progress result with more answered questions than the bank holds
C26_AnsweredExceedsTotal ==
    /\ resp # None
    /\ resp[1].kind = "tracker"
    /\ resp[1].value.total >= 1
    /\ resp[1].value.answered > resp[1].value.total

(***************************************************************************)
(* Login (SpecAuth)                                                        *)
(***************************************************************************)
\* what the tables hold for user u: history rows, favorites, sequential
\* position and exam sessions
UserDataOf(h, f, sq, ss, u) ==
    <<h[u], SelectSeq(f, LAMBDA r : r.user = u), sq[u],
      SelectSeq(ss, LAMBDA r : r.user = u)>>

\* the request whose response is r was sent by client u to a protected route
ProtectedRequest(r, u) ==
    r # None /\ r[1].user = u /\ r[1].kind \notin {"login", "logout"}

\* C22: a request to a login-protected route by a client that is not logged
\* in is redirected to the login page and changes neither the questions nor
\* the history, favorites, sequential position or exam sessions; a client
\* becomes logged in only by a login with the name and password of its
\* account, and a logout leaves it logged out
C22_LoginGuardsData ==
    /\ [][\A u \in Users : u \notin loggedIn =>
            /\ UserDataOf(history', favorites', seqQid', sessions', u)
                  = UserDataOf(history, favorites, seqQid, sessions, u)
            /\ ProtectedRequest(resp', u)
                  => resp'[1].kind = "redirect_login" /\ questions' = questions
            /\ u \in loggedIn'
                  => /\ resp' # None
                     /\ resp'[1].kind = "login"
                     /\ resp'[1].user = u
                     /\ resp'[1].username = UserName(u)
                     /\ resp'[1].password = Password(u)]_vars
    /\ [][questions' # questions => resp' # None /\ resp'[1].user \in loggedIn]_vars
    /\ [][\A u \in Users :
            (resp' # None /\ resp'[1].kind = "logout" /\ resp'[1].user = u)
               => u \notin loggedIn' /\ u \notin DOMAIN examId']_vars

\* a client with history, a favorite and an open exam logged out and was
\* sent to the login page when it submitted the exam
C22_Witness ==
    /\ resp # None
    /\ resp[1].kind = "redirect_login"
    /\ resp[1].route = "submit_exam"
    /\ resp[1].user \notin loggedIn
    /\ history[resp[1].user] # <<>>
    /\ favorites # <<>>
    /\ \E i \in 1..Len(sessions) : ~sessions[i].completed

\* a login with a wrong password left the client logged out
C22_WitnessBadLogin ==
    /\ resp # None
    /\ resp[1].kind = "login"
    /\ resp[1].username = UserName(resp[1].user)
    /\ resp[1].password # Password(resp[1].user)
    /\ resp[1].user \notin loggedIn
    /\ history[resp[1].user] # <<>>

(***************************************************************************)
(* Exam and timed sessions (SpecExam)                                      *)
(***************************************************************************)
\* the step answered a submit request of client u with response r
SubmitStep(r, u) == r # None /\ r[1].kind = "submit" /\ r[1].user = u

\* the number of correct rows among the last n rows of h
CorrectAmongLast(h, n) ==
    Cardinality({i \in (Len(h) - n + 1)..Len(h) : h[i].correct})

\* s is correct / total * 100 in whole percent, and 0 when total is 0
IsScore(s, correct, total) ==
    IF total = 0 THEN s = 0
    ELSE s * total <= correct * 100 /\ correct * 100 < (s + 1) * total

\* C23: an accepted submit is for a session that was not completed; it
\* appends one history row for each session question that still exists,
\* sets completed and score = correct / total * 100 with total the number of
\* question ids of the session, so that 0 <= score <= 100, leaves the other
\* sessions alone and clears the current exam id; a rejected submit changes
\* neither history nor sessions; a completed session is never written again
\* and is never the current exam of a client
C23_SubmittedOnce ==
    /\ [][\A u \in Users : (SubmitStep(resp', u) /\ resp'[1].success) =>
            LET id == resp'[1].exam
                qids == sessions[id].qids
                existing == SelectSeq(qids, LAMBDA q : q \in QuestionIds(questions))
                n == Len(existing)
            IN /\ ~sessions[id].completed
               /\ Len(history'[u]) = Len(history[u]) + n
               /\ SubSeq(history'[u], 1, Len(history[u])) = history[u]
               /\ \A i \in 1..n : history'[u][Len(history[u]) + i].qid = existing[i]
               /\ sessions'[id].completed
               /\ IsScore(sessions'[id].score, CorrectAmongLast(history'[u], n),
                          Len(qids))
               /\ sessions'[id].score >= 0
               /\ sessions'[id].score <= 100
               /\ Len(sessions') = Len(sessions)
               /\ \A i \in 1..Len(sessions) : i # id => sessions'[i] = sessions[i]
               /\ u \notin DOMAIN examId']_vars
    /\ [][\A u \in Users : (SubmitStep(resp', u) /\ ~resp'[1].success) =>
            history' = history /\ sessions' = sessions]_vars
    /\ [][\A i \in 1..Len(sessions) :
            sessions[i].completed => sessions'[i] = sessions[i]]_vars
    /\ [](\A u \in DOMAIN examId :
            SessionOf(sessions, examId[u], u) # None
               => ~sessions[examId[u]].completed)

\* a second submit of a completed session, one of whose questions a reload
\* had removed, was rejected
C23_Witness ==
    /\ resp # None
    /\ resp[1].kind = "submit"
    /\ ~resp[1].success
    /\ resp[1].user \in loggedIn
    /\ \E i \in 1..Len(sessions) :
          /\ sessions[i].user = resp[1].user
          /\ sessions[i].completed
          /\ sessions[i].score = 50
          /\ Len(sessions[i].qids) = 2
          /\ Len(history[resp[1].user]) = 1

\* the second session of a client was submitted after the first
C23_WitnessSecondSession ==
    /\ resp # None
    /\ resp[1].kind = "submit"
    /\ resp[1].success
    /\ resp[1].exam = 2
    /\ sessions[1].completed
    /\ sessions[2].completed
    /\ sessions[2].mode = "timed"
    /\ sessions[2].score = 100

(***************************************************************************)
(* Concurrent submits (SpecRace)                                           *)
(***************************************************************************)
\* the number of question ids of the sessions of user u
SessionQuestions(ss, u) ==
    LET RECURSIVE Sum(_)
        Sum(i) == IF i = 0 THEN 0
                  ELSE (IF ss[i].user = u THEN Len(ss[i].qids) ELSE 0) + Sum(i - 1)
    IN Sum(Len(ss))

\* C30: under any interleaving of submit requests that carry the same
\* current exam id, the history holds at most one row per question of each
\* session (history rows come from submits alone in SpecRace), and a session
\* that is completed is not written by a second submission
C30_RecordedAtMostOnce ==
    /\ [](\A u \in Users : Len(history[u]) <= SessionQuestions(sessions, u))
    /\ [][\A i \in 1..Len(sessions) :
            sessions[i].completed => history' = history /\ sessions'[i] = sessions[i]]_vars

\* what holds instead: one step appends at most one row per question of the
\* user's sessions
C30_OneRowPerQuestionAndSubmission ==
    [][\A u \in Users :
         Len(history'[u]) <= Len(history[u]) + SessionQuestions(sessions, u)]_vars

\* two requests with the same exam id were both accepted: every answer of the
\* session is in history twice
C30_RecordedTwice ==
    /\ Len(sessions) = 1
    /\ sessions[1].completed
    /\ Len(sessions[1].qids) = 2
    /\ Len(history[sessions[1].user]) = 4
    /\ \A t \in Threads : pc[t] = "idle"

(***************************************************************************)
(* The ranking of wrong-question recommendations (SpecWrong)               *)
(***************************************************************************)
\* the recommendations for all wrong questions of the user of response r
AllWrongRecs(r) ==
    LET ua == GetUserAnswers(history[r.user])
        ids == {history[r.user][i].qid :
                  i \in {n \in 1..Len(history[r.user]) : ~history[r.user][n].correct}}
        order == CHOOSE p \in Orders(ids) : TRUE
    IN RecommendWrongQuestions(ua, questions, Cardinality(ids), order, r.at)

\* the result holds at most count recommendations, in the order of __lt__
AtMostCountSorted(r) ==
    /\ Len(r.value) <= r.count
    /\ \A i \in 1..(Len(r.value) - 1) : ~RecLess(r.value[i + 1], r.value[i])

\* a recommendation that was left out and ranks strictly before a returned one
BetterLeftOut(r) ==
    LET all == AllWrongRecs(r)
    IN \E i \in 1..Len(all) : \E j \in 1..Len(r.value) :
          /\ \A k \in 1..Len(r.value) : r.value[k].question_id # all[i].question_id
          /\ RecLess(all[i], r.value[j])

\* C29: recommend_wrong_questions(u, count) returns at most count
\* recommendations, sorted by priority ascending then score descending, and
\* no wrong question that was left out ranks strictly before a returned one
C29_BestRankedReturned ==
    WrongResponse => AtMostCountSorted(resp[1]) /\ ~BetterLeftOut(resp[1])

\* what holds instead: at most count recommendations, sorted
C29_AtMostCountSorted ==
    WrongResponse => AtMostCountSorted(resp[1])

\* count = 1, and the question that was returned has one error while a
\* question with two errors was left out
C29_BetterLeftOutReached ==
    /\ WrongResponse
    /\ resp[1].count = 1
    /\ Len(resp[1].value) = 1
    /\ resp[1].value[1].priority = 2
    /\ BetterLeftOut(resp[1])

(***************************************************************************)
(* A failed reload (SpecDb)                                                *)
(***************************************************************************)
\* the step answered reload_questions with a failure to load the file
FailedReload(r) == r # None /\ r[1].kind = "reload" /\ ~r[1].success

\* C28: when reload_questions fails to load the CSV (file missing, or no
\* encoding can read it) the questions table is as it was before the request
C28_FailedReloadKeepsQuestions ==
    [][FailedReload(resp') => questions' = questions]_vars

\* what holds instead: a failed reload leaves the questions table empty
C28_FailedReloadEmptiesQuestions ==
    [][FailedReload(resp') => questions' = <<>>]_vars

\* the file cannot be decoded and the reload has emptied a table that was
\* loaded by init_db
C28_EmptiedByFailedReload ==
    /\ FailedReload(resp)
    /\ csvFile = DbFileUnreadable
    /\ resp[1].errors[1].kind = "encodings"
    /\ questions = <<>>
    /\ DbBank # <<>>

(***************************************************************************)
(* The stored position after a reload (SpecSeqReload)                      *)
(***************************************************************************)
\* the step answered sequential_start of user u
StartStep(r, u) == r # None /\ r[1].kind = "seq_start" /\ r[1].user = u

\* C27: whenever the question bank is not empty, sequential_start sends the
\* user to a question that exists, also when the stored position is of a
\* question that a reload has removed
C27_StartLeadsToExistingQuestion ==
    (resp # None /\ resp[1].kind = "seq_start" /\ questions # <<>>)
       => resp[1].qid \in QuestionIds(questions)

\* what holds instead: sequential_start sends the user to an existing
\* question when the bank is not empty and no position is stored; with a
\* stored position it sends the user there and leaves the position as it is
C27_StartFollowsStoredPosition ==
    [][\A u \in Users : StartStep(resp', u) =>
          IF seqQid[u] = NoKey
          THEN questions # <<>> => resp'[1].qid \in QuestionIds(questions)
          ELSE resp'[1].qid = seqQid[u] /\ seqQid'[u] = seqQid[u]]_vars

\* sequential_start sent the user to the removed question 3, the page
\* answered that the question does not exist, and the position is still 3
C27_StuckPosition ==
    /\ resp # None
    /\ resp[1].kind = "seq_missing"
    /\ resp[1].qid = 3
    /\ seqQid[resp[1].user] = 3
    /\ questions = SeqBankReduced

=============================================================================
